---- MODULE Spec2Model ----
(***************************************************************************)
(* Model of the Twitter aggregation pipeline of trendbot:                  *)
(*   twitter_fetcher.py  TwitterFetcher.fetch_trending_posts               *)
(*   twitter_filter.py   filter_and_score_posts and its helpers            *)
(*   reddit_fetcher.py   calculate_relevance_score                         *)
(*   cache_manager.py    CacheManager over cachetools.TTLCache             *)
(*                                                                         *)
(* Representation.                                                         *)
(*  - A Python dict is a function whose DOMAIN is the set of keys present, *)
(*    so that "key in post" and post.get(key, default) are decidable.      *)
(*  - A Python str that the code only searches, measures and lower-cases   *)
(*    is a record [toks, len, upper, hashes]: the case-folded tokens it is *)
(*    made of, its length in characters, its number of uppercase           *)
(*    characters and its number of '#'.  "k in text" is Occurs(k, text).   *)
(*  - Time is counted in ticks of 4 hours.                                 *)
(*  - Scores are integers: relevance and quality in halves (2.0 is 4),     *)
(*    raw engagement in halves, final_score in 200ths.                     *)
(***************************************************************************)
EXTENDS Integers, Sequences, FiniteSets, TLC

(***************************************************************************)
(* Bounds of the model.                                                    *)
(***************************************************************************)
MaxTime == 2
MaxCalls == 2
MaxLimit == 3
NumDefaultQueries == 2
MaxOps == 3

(***************************************************************************)
(* Program constants.                                                      *)
(***************************************************************************)
CACHE_TTL == 2
CACHE_MAXSIZE == 100
DAY == 6
WEEK == 42
MIN_RELEVANCE == 4
HIGH_WEIGHT == 4
MEDIUM_WEIGHT == 2
QUALITY_BASE == 6
QUALITY_TERM_BONUS == 1
RESEARCH_BONUS == 3
LINKS_BONUS == 1
MEDIA_BONUS == 1
SHORT_PENALTY == 2
SHORT_LENGTH == 100
RECENT_BONUS == 1
QUALITY_MIN == 2
QUALITY_MAX == 10
MAX_HASHTAGS == 5
HIGH_ENGAGEMENT == 200
RELEVANCE_FACTOR == 500
QUALITY_FACTOR == 300
ENGAGEMENT_FACTOR == 2
ENGAGEMENT_CAP == 1000
MAX_PER_SOURCE == 2
NITTER_FACTOR == 2
EPOCH == -100000
BOOST_NUM == 3
BOOST_DEN == 2

(***************************************************************************)
(* Dicts.                                                                  *)
(***************************************************************************)
EmptyDict == [k \in {} |-> 0]

Has(d, k) == k \in DOMAIN d

Get(d, k, default) == IF k \in DOMAIN d THEN d[k] ELSE default

Put(d, k, v) == [j \in DOMAIN d \cup {k} |-> IF j = k THEN v ELSE d[j]]

\* body(value), with value computed once.
Bind(value, body(_)) == CHOOSE result \in {body(x) : x \in {value}} : TRUE

Min(a, b) == IF a < b THEN a ELSE b

Max(a, b) == IF a > b THEN a ELSE b

(***************************************************************************)
(* Strings.                                                                *)
(***************************************************************************)
Str(toks, len, upper, hashes) ==
    [toks |-> toks, len |-> len, upper |-> upper, hashes |-> hashes]

EmptyStr == Str(<<>>, 0, 0, 0)

Space == Str(<<>>, 1, 0, 0)

\* a + b
Concat(a, b) ==
    Str(a.toks \o b.toks, a.len + b.len, a.upper + b.upper, a.hashes + b.hashes)

\* s.lower()
Lower(s) == [s EXCEPT !.upper = 0]

\* bool(s)
Truthy(s) == s.len > 0

\* The proper substrings, among the keywords and query terms the code
\* searches for, of the tokens that texts of the model are made of.
Within ==
    { <<"gpt", "gpt-4">>,
      <<"earn", "machine learning">>, <<"learning", "machine learning">>,
      <<"machine", "machine learning">>,
      <<"artificial", "artificial intelligence">>,
      <<"intelligence", "artificial intelligence">>,
      <<"deep", "deep learning">>, <<"earn", "deep learning">>,
      <<"learning", "deep learning">>,
      <<"transformer", "transformers">>,
      <<"ai", "training data">>, <<"training", "training data">>,
      <<"ai", "openai">>, <<"deep", "deepmind">> }

\* k in s
Occurs(k, s) ==
    \E i \in 1..Len(s.toks) : s.toks[i] = k \/ <<k, s.toks[i]>> \in Within

(***************************************************************************)
(* reddit_fetcher.py: AI_ML_KEYWORDS and calculate_relevance_score.        *)
(***************************************************************************)
HIGH_RELEVANCE ==
    << "artificial intelligence", "machine learning", "deep learning",
       "neural network", "ai model", "llm", "large language model",
       "transformer", "gpt", "stable diffusion", "training data",
       "tensorflow", "pytorch", "opencv", "computer vision" >>

MEDIUM_RELEVANCE ==
    << "algorithm", "dataset", "training", "inference", "prediction",
       "classification", "clustering", "regression", "automation",
       "robotics", "nlp", "natural language", "recognition" >>

\* The loop "for keyword in keywords: if keyword in text: score += weight",
\* over keywords[1..n].
RECURSIVE AddMatches(_, _, _, _)
AddMatches(keywords, n, text, weight) ==
    IF n = 0 THEN 0
    ELSE AddMatches(keywords, n - 1, text, weight)
         + (IF Occurs(keywords[n], text) THEN weight ELSE 0)

\* The score that counts every occurrence of a keyword in the text.
calculate_relevance_score_Counting(text) ==
    LET Occurrences(keywords) ==
            Cardinality({pair \in (1..Len(keywords)) \X (1..Len(text.toks)) :
                Occurs(keywords[pair[1]],
                       [text EXCEPT !.toks = <<text.toks[pair[2]]>>])})
    IN  HIGH_WEIGHT * Occurrences(HIGH_RELEVANCE)
        + MEDIUM_WEIGHT * Occurrences(MEDIUM_RELEVANCE)

calculate_relevance_score(text) ==
    AddMatches(HIGH_RELEVANCE, Len(HIGH_RELEVANCE), Lower(text), HIGH_WEIGHT)
    + AddMatches(MEDIUM_RELEVANCE, Len(MEDIUM_RELEVANCE), Lower(text), MEDIUM_WEIGHT)

(***************************************************************************)
(* twitter_filter.py: keyword tables.                                      *)
(***************************************************************************)
HIGH_QUALITY_TERMS ==
    << "algorithm", "model architecture", "trained on", "parameters",
       "inference", "fine-tuning", "dataset", "benchmarks", "paper",
       "research", "published", "code", "implementation", "open source",
       "accuracy", "performance",
       "gpt-4", "llama", "claude", "gemini", "mistral", "stable diffusion",
       "dall-e", "midjourney", "falcon", "transformers", "diffusion",
       "multimodal",
       "alignment", "safety", "ethics", "capabilities", "reasoning",
       "agents", "rlhf", "reinforcement learning", "supervised learning",
       "unsupervised", "vision", "language", "robotics", "autonomous",
       "optimization" >>

LOW_QUALITY_INDICATORS ==
    << "buy now", "click here", "sign up", "subscribe", "limited time",
       "promo code", "get started", "join our", "discount", "offer", "sale",
       "register", "free trial", "followers", "crypto", "bitcoin", "nft",
       "binance", "exchange", "trading", "make money", "earn", "marketing",
       "seo", "business opportunity", "webinar", "course", "masterclass",
       "tutorial", "job posting", "hiring" >>

SUSPICIOUS_URL_PATTERNS ==
    << "bit.ly", "tinyurl", "cutt.ly", "t.co", "goo.gl", "amzn.to", "buff.ly" >>

AnyOccurs(keywords, text) ==
    \E i \in 1..Len(keywords) : Occurs(keywords[i], text)

(***************************************************************************)
(* The candidates the adapters can deliver.                                *)
(***************************************************************************)
\* twitter_nitter.py, _parse_nitter_content: post_data.
Tweet(url, author_name, author_username, content, timestamp, likes, retweets, replies) ==
    [author_name |-> author_name, author_username |-> author_username,
     content |-> content, url |-> url, timestamp |-> timestamp,
     replies |-> replies, retweets |-> retweets, likes |-> likes,
     hashtags |-> <<>>, has_links |-> FALSE, media |-> EmptyDict,
     is_verified |-> FALSE, type |-> "twitter_post",
     raw_engagement_score |-> likes * 2 + retweets * 4 + replies * 3]

\* twitter_rss.py, fetch_posts: formatted_post.
RssPost(url, source, author_username, title, content, timestamp) ==
    [title |-> title, url |-> url, author_name |-> source,
     author_username |-> author_username, content |-> content,
     timestamp |-> timestamp, type |-> "rss_post",
     raw_engagement_score |-> 10,
     replies |-> 0, retweets |-> 0, likes |-> 0, hashtags |-> <<"#AI">>]

OpenAIName == Str(<<"openai">>, 6, 3, 0)

T1 == Tweet("https://nitter.net/OpenAI/status/1", OpenAIName, "OpenAI",
            Str(<<"llm", "paper">>, 120, 4, 0), -1, 10, 0, 0)

T2 == Tweet("https://nitter.net/OpenAI/status/2", OpenAIName, "OpenAI",
            Str(<<"gpt-4">>, 110, 4, 0), -5, 30, 10, 0)

T3 == Tweet("https://nitter.net/OpenAI/status/3", OpenAIName, "OpenAI",
            Str(<<"artificial intelligence", "dataset">>, 130, 4, 0), -41, 4, 0, 2)

T4 == Tweet("https://nitter.net/bob/status/4", Str(<<"bob">>, 3, 1, 0), "bob",
            Str(<<"training data", "hello">>, 60, 2, 0), -2, 2, 1, 0)

T5 == Tweet("https://nitter.net/DeepMind/status/5", Str(<<"deepmind">>, 8, 2, 0),
            "DeepMind", Str(<<"deep learning">>, 140, 3, 0), -3, 50, 20, 5)

R1 == RssPost("https://technews.example/llm", Str(<<"tech news">>, 9, 2, 0),
              "technews",
              Str(<<"tech news", "llm", "research">>, 40, 4, 0),
              Str(<<"llm", "research", "algorithm">>, 300, 6, 0), -4)

\* f"{author_name} {content} {title}".lower()
CombinedText(post) ==
    Lower(Concat(Get(post, "author_name", EmptyStr),
          Concat(Space,
          Concat(Get(post, "content", EmptyStr),
          Concat(Space, Get(post, "title", EmptyStr))))))

Catalog == {T1, T2, T3, T4, T5, R1}

\* The keyword searches over the texts of the catalog, each done once.
CatalogTexts == {CombinedText(post) : post \in Catalog}

RelevanceOf == [text \in CatalogTexts |-> calculate_relevance_score(text)]

QualityTermsOf ==
    [text \in CatalogTexts |->
        AddMatches(HIGH_QUALITY_TERMS, Len(HIGH_QUALITY_TERMS), text,
                   QUALITY_TERM_BONUS)]

LowQualityOf == [text \in CatalogTexts |-> AnyOccurs(LOW_QUALITY_INDICATORS, text)]

SuspiciousUrlOf == [text \in CatalogTexts |-> AnyOccurs(SUSPICIOUS_URL_PATTERNS, text)]

(***************************************************************************)
(* twitter_filter.py: calculate_quality_score.  text is the lower-cased    *)
(* combined text; now is time.time().                                      *)
(***************************************************************************)
\* The clamp without its upper end.
Clamp_NoCeiling(score) == Max(QUALITY_MIN, score)

Clamp(score) == Max(QUALITY_MIN, Min(QUALITY_MAX, score))

calculate_quality_score(post, text, query_terms, now) ==
    Clamp(QUALITY_BASE
          + (IF text \in DOMAIN QualityTermsOf THEN QualityTermsOf[text]
             ELSE AddMatches(HIGH_QUALITY_TERMS, Len(HIGH_QUALITY_TERMS), text,
                             QUALITY_TERM_BONUS))
          + (IF Get(post, "is_research_account", FALSE) THEN RESEARCH_BONUS ELSE 0)
          + (IF Get(post, "has_links", FALSE) THEN LINKS_BONUS ELSE 0)
          + (IF Get(Get(post, "media", EmptyDict), "has_media", FALSE)
             THEN MEDIA_BONUS ELSE 0)
          - (IF text.len < SHORT_LENGTH THEN SHORT_PENALTY ELSE 0)
          + (IF now - Get(post, "timestamp", now) < DAY THEN RECENT_BONUS ELSE 0))

(***************************************************************************)
(* twitter_filter.py: contains_spam.                                       *)
(***************************************************************************)
contains_spam(text) ==
    \/ IF text \in DOMAIN LowQualityOf THEN LowQualityOf[text]
       ELSE AnyOccurs(LOW_QUALITY_INDICATORS, text)
    \/ text.hashes > MAX_HASHTAGS
    \/ text.upper * 10 > 3 * Max(1, text.len)
    \/ IF text \in DOMAIN SuspiciousUrlOf THEN SuspiciousUrlOf[text]
       ELSE AnyOccurs(SUSPICIOUS_URL_PATTERNS, text)

(***************************************************************************)
(* twitter_filter.py: ensure_diversity.                                    *)
(***************************************************************************)
CountSource(posts, source) ==
    Cardinality({i \in 1..Len(posts) : Get(posts[i], "author_username", "") = source})

\* The loop of ensure_diversity over posts[1..n]: diverse_posts after it.
RECURSIVE DiverseLoop(_, _, _)
DiverseLoop(posts, n, max_per_source) ==
    IF n = 0 THEN <<>>
    ELSE Bind(DiverseLoop(posts, n - 1, max_per_source),
              LAMBDA diverse_posts :
                IF CountSource(diverse_posts, Get(posts[n], "author_username", ""))
                     < max_per_source
                THEN Append(diverse_posts, posts[n])
                ELSE diverse_posts)

\* ensure_diversity with the cap one too high.
ensure_diversity_CapPlusOne(posts) ==
    DiverseLoop(posts, Len(posts), MAX_PER_SOURCE + 1)

ensure_diversity(posts) ==
    Bind(posts, LAMBDA ps : DiverseLoop(ps, Len(ps), MAX_PER_SOURCE))

(***************************************************************************)
(* twitter_filter.py: format_post_for_output, the placeholder the filter   *)
(* module defines for itself and calls.                                    *)
(***************************************************************************)
format_post_for_output(post) == post

(***************************************************************************)
(* sorted(filtered_posts, key=final_score, reverse=True): a stable sort,   *)
(* equal keys keep their order.                                            *)
(***************************************************************************)
FinalScore(post) == Get(post, "final_score", 0)

\* The number of posts of sorted that stay before post.
Before(sorted, post) ==
    Cardinality({i \in 1..Len(sorted) : FinalScore(sorted[i]) >= FinalScore(post)})

InsertDesc(sorted, post) ==
    Bind(Before(sorted, post),
         LAMBDA k : SubSeq(sorted, 1, k) \o <<post>> \o SubSeq(sorted, k + 1, Len(sorted)))

RECURSIVE SortLoop(_, _)
SortLoop(posts, n) ==
    IF n = 0 THEN <<>>
    ELSE Bind(SortLoop(posts, n - 1), LAMBDA sorted : InsertDesc(sorted, posts[n]))

\* The sort left out: the posts in the order of accumulation.
SortByFinalScore_Unsorted(posts) == posts

SortByFinalScore(posts) == Bind(posts, LAMBDA ps : SortLoop(ps, Len(ps)))

(***************************************************************************)
(* twitter_filter.py: filter_and_score_posts.                              *)
(***************************************************************************)
\* query.lower().split()
QueryTerms(query) ==
    CASE query = "artificial intelligence" -> <<"artificial", "intelligence">>
      [] query = "machine learning" -> <<"machine", "learning">>
      [] query = "deep learning" -> <<"deep", "learning">>
      [] query = "AI research" -> <<"ai", "research">>
      [] query = "LLM" -> <<"llm">>
      [] query = "generative AI" -> <<"generative", "ai">>
      [] query = "gpt-4 paper" -> <<"gpt-4", "paper">>
      [] OTHER -> <<>>

HasText(post) ==
    Truthy(Get(post, "content", EmptyStr)) \/ Truthy(Get(post, "title", EmptyStr))

\* The staleness test that also discards engagement of exactly 100.
IsStale_Inclusive(post, now) ==
    /\ Get(post, "timestamp", EPOCH) < now - WEEK
    /\ Get(post, "raw_engagement_score", 0) <= HIGH_ENGAGEMENT

IsStale(post, now) ==
    /\ Get(post, "timestamp", EPOCH) < now - WEEK
    /\ Get(post, "raw_engagement_score", 0) < HIGH_ENGAGEMENT

\* The multiplier applied whenever there is a query, matching or not.
Boosted_AnyQuery(score, query_terms, text) ==
    IF query_terms # <<>>
    THEN (score * BOOST_NUM) \div BOOST_DEN
    ELSE score

Boosted(score, query_terms, text) ==
    IF query_terms # <<>> /\ AnyOccurs(query_terms, text)
    THEN (score * BOOST_NUM) \div BOOST_DEN
    ELSE score

ComputeFinalScore(post, ai_relevance, quality_score, query_terms, text) ==
    Boosted(ai_relevance * RELEVANCE_FACTOR
              + quality_score * QUALITY_FACTOR
              + Min(Get(post, "raw_engagement_score", 0) * ENGAGEMENT_FACTOR,
                    ENGAGEMENT_CAP),
            query_terms, text)

\* The post as the loop appends it to filtered_posts.
WithScores(post, text, ai_relevance, quality_score, query_terms) ==
    format_post_for_output(
      Put(Put(Put(post, "ai_relevance", ai_relevance),
              "quality_score", quality_score),
          "final_score",
          ComputeFinalScore(post, ai_relevance, quality_score, query_terms, text)))

\* The checks of one iteration after the relevance check.
QualityStep(filtered_posts, post, text, ai_relevance, query_terms, now) ==
    Bind(calculate_quality_score(post, text, query_terms, now),
         LAMBDA quality_score :
           IF quality_score < QUALITY_MIN \/ contains_spam(text)
           THEN filtered_posts
           ELSE IF IsStale(post, now)
           THEN filtered_posts
           ELSE Append(filtered_posts,
                       WithScores(post, text, ai_relevance, quality_score,
                                  query_terms)))

\* The iteration that also drops a candidate at the minimum relevance.
FilterStep_DropsMinimum(filtered_posts, post, query_terms, now) ==
    IF ~HasText(post)
    THEN filtered_posts
    ELSE Bind(CombinedText(post),
              LAMBDA text :
                Bind(calculate_relevance_score(text),
                     LAMBDA ai_relevance :
                       IF ai_relevance <= MIN_RELEVANCE
                       THEN filtered_posts
                       ELSE QualityStep(filtered_posts, post, text, ai_relevance,
                                        query_terms, now)))

\* One iteration of the loop: filtered_posts after it.
FilterStep(filtered_posts, post, query_terms, now) ==
    IF ~HasText(post)
    THEN filtered_posts
    ELSE Bind(CombinedText(post),
              LAMBDA text :
                Bind(IF text \in DOMAIN RelevanceOf THEN RelevanceOf[text]
                     ELSE calculate_relevance_score(text),
                     LAMBDA ai_relevance :
                       IF ai_relevance < MIN_RELEVANCE
                       THEN filtered_posts
                       ELSE QualityStep(filtered_posts, post, text, ai_relevance,
                                        query_terms, now)))

RECURSIVE FilterLoop(_, _, _, _)
FilterLoop(posts, n, query_terms, now) ==
    IF n = 0 THEN <<>>
    ELSE Bind(FilterLoop(posts, n - 1, query_terms, now),
              LAMBDA filtered_posts :
                FilterStep(filtered_posts, posts[n], query_terms, now))

\* len(filtered_posts) before the sort and the diversity pass.
Survivors(posts, query, now) ==
    Len(FilterLoop(posts, Len(posts), QueryTerms(query), now))

filter_and_score_posts(posts, query, now) ==
    IF posts = <<>> THEN <<>>
    ELSE Bind(FilterLoop(posts, Len(posts), QueryTerms(query), now),
              LAMBDA filtered_posts :
                Bind(SortByFinalScore(filtered_posts),
                     LAMBDA sorted_posts : ensure_diversity(sorted_posts)))

(***************************************************************************)
(* twitter_filter.py: enhance_posts.                                       *)
(***************************************************************************)
EnhanceOne(post) ==
    LET p1 == IF ~Has(post, "relevance_score") /\ Has(post, "ai_relevance")
              THEN Put(post, "relevance_score", post["ai_relevance"]) ELSE post
        p2 == Put(p1, "engagement",
                  [likes |-> Get(p1, "likes", 0),
                   retweets |-> Get(p1, "retweets", 0),
                   replies |-> Get(p1, "replies", 0)])
        p3 == IF ~Has(p2, "type") THEN Put(p2, "type", "twitter_post") ELSE p2
        p4 == IF ~Has(p3, "description") /\ Has(p3, "content")
              THEN Put(p3, "description", p3["content"]) ELSE p3
        p5 == IF ~Has(p4, "author") /\ Has(p4, "author_username")
              THEN Put(p4, "author", p4["author_username"]) ELSE p4
        p6 == IF Get(p5, "type", "") = "rss_post" /\ Has(p5, "source")
              THEN Put(p5, "title",
                       Concat(p5["source"],
                              Concat(Str(<<>>, 2, 0, 0), Get(p5, "title", EmptyStr))))
              ELSE p5
    IN  Put(p6, "subreddit", "Twitter")

enhance_posts(posts) ==
    Bind(posts, LAMBDA ps : [i \in 1..Len(ps) |-> EnhanceOne(ps[i])])

(***************************************************************************)
(* cache_manager.py: CacheManager over TTLCache(maxsize, ttl).  The cache  *)
(* is the sequence of its entries [key, value, expires] in the order of    *)
(* TTLCache's links: the first entry is the next one evicted.              *)
(***************************************************************************)
CacheIndex(c, key) ==
    IF \E i \in 1..Len(c) : c[i].key = key
    THEN CHOOSE i \in 1..Len(c) : c[i].key = key
    ELSE 0

RemoveAt(seq, i) == SubSeq(seq, 1, i - 1) \o SubSeq(seq, i + 1, Len(seq))

\* The liveness test that lets an entry live through the instant it expires.
CacheLive_Inclusive(c, key, now) ==
    \E i \in 1..Len(c) : c[i].key = key /\ now <= c[i].expires

\* key in self.cache: present and not expired.
CacheLive(c, key, now) ==
    \E i \in 1..Len(c) : c[i].key = key /\ now < c[i].expires

\* CacheManager.get(key): [found, value]; found = FALSE is None.
CacheGet(c, key, now) ==
    IF CacheLive(c, key, now)
    THEN [found |-> TRUE, value |-> c[CacheIndex(c, key)].value]
    ELSE [found |-> FALSE, value |-> <<>>]

\* The get that leaves the order of the entries alone.
CacheAfterGet_Untouched(c, key, now) == c

\* The cache after CacheManager.get(key): a hit moves the entry's link to
\* the end.
CacheAfterGet(c, key, now) ==
    IF CacheLive(c, key, now)
    THEN Append(RemoveAt(c, CacheIndex(c, key)), c[CacheIndex(c, key)])
    ELSE c

\* TTLCache.expire(time)
Expire(c, now) == SelectSeq(c, LAMBDA e : now < e.expires)

\* A set that leaves an unexpired entry of the key as it is.
CacheSet_KeepsFirst(c, key, value, now) ==
    LET live == Expire(c, now)
        room == IF CacheIndex(live, key) = 0 /\ Len(live) >= CACHE_MAXSIZE
                THEN Tail(live) ELSE live
    IN  IF CacheIndex(room, key) # 0 THEN room
        ELSE Append(room, [key |-> key, value |-> value,
                           expires |-> now + CACHE_TTL])

\* The cache after CacheManager.set(key, value).
CacheSet(c, key, value, now) ==
    LET live == Expire(c, now)
        room == IF CacheIndex(live, key) = 0 /\ Len(live) >= CACHE_MAXSIZE
                THEN Tail(live) ELSE live
        rest == IF CacheIndex(room, key) = 0 THEN room
                ELSE RemoveAt(room, CacheIndex(room, key))
    IN  Append(rest, [key |-> key, value |-> value, expires |-> now + CACHE_TTL])

\* What the cache holds: the entries without their order.
CacheContents(c) == {c[i] : i \in 1..Len(c)}

(***************************************************************************)
(* twitter_fetcher.py: queries and cache keys.                             *)
(***************************************************************************)
AI_SEARCH_QUERIES ==
    << "artificial intelligence", "machine learning", "deep learning",
       "AI research", "LLM", "generative AI" >>

\* The default topics random.choice draws from, within the model's bound.
DefaultQueries ==
    {AI_SEARCH_QUERIES[i] : i \in 1..Min(NumDefaultQueries, Len(AI_SEARCH_QUERIES))}

\* query = None
None == "None"

QueryArgs == {None, "gpt-4 paper"}

Limits == -1..MaxLimit

\* query if query else random.choice(AI_SEARCH_QUERIES)
SearchQueries(query) == IF query = None THEN DefaultQueries ELSE {query}

\* f"twitter_{search_query.replace(' ', '_')}"
CacheKey(search_query) ==
    CASE search_query = "artificial intelligence" -> "twitter_artificial_intelligence"
      [] search_query = "machine learning" -> "twitter_machine_learning"
      [] search_query = "deep learning" -> "twitter_deep_learning"
      [] search_query = "AI research" -> "twitter_AI_research"
      [] search_query = "LLM" -> "twitter_LLM"
      [] search_query = "generative AI" -> "twitter_generative_AI"
      [] search_query = "gpt-4 paper" -> "twitter_gpt-4_paper"

(***************************************************************************)
(* What the adapters can deliver.                                          *)
(***************************************************************************)
\* The prefixes of a feed, the empty one included.
Prefixes(feed) == {SubSeq(feed, 1, n) : n \in 0..Len(feed)}

\* What one call of an adapter can come to: it raises, or it delivers posts.
Raises == [raises |-> TRUE, posts |-> <<>>]

Delivers(posts) == [raises |-> FALSE, posts |-> posts]

NitterOutcomes ==
    {Raises} \cup {Delivers(w) : w \in Prefixes(<<T1, T2, T3>>) \cup {<<T4>>}}

\* One page per research account, in the order of RESEARCH_ACCOUNTS.
RESEARCH_ACCOUNTS == <<"OpenAI", "DeepMind", "stanfordnlp", "StabilityAI">>

AccountsOutcomes ==
    {Delivers(<<first, second>>) : first \in {<<>>, <<T1>>},
                                   second \in {<<>>, <<T5>>}}

RssOutcomes == {Delivers(<<>>), Delivers(<<R1>>)}

(***************************************************************************)
(* twitter_nitter.py and twitter_rss.py: what the adapters return to       *)
(* fetch_trending_posts out of what the network delivers.                  *)
(***************************************************************************)
\* NitterMethod.fetch_posts: URL-distinct posts, diverse_posts[:limit].
NitterFetchPosts(feed, limit) ==
    IF limit <= 0 THEN <<>> ELSE SubSeq(feed, 1, Min(Len(feed), limit))

\* NitterMethod.fetch_from_accounts: the pages of the accounts in order,
\* every post marked, until limit posts are gathered.
MarkAccount(page, account) ==
    [i \in 1..Len(page) |->
        Put(Put(page[i], "source_account", account), "is_research_account", TRUE)]

RECURSIVE AccountsLoop(_, _, _)
AccountsLoop(pages, n, limit) ==
    IF n = 0 THEN <<>>
    ELSE Bind(AccountsLoop(pages, n - 1, limit),
              LAMBDA all_posts :
                IF all_posts # <<>> /\ Len(all_posts) >= limit
                THEN all_posts
                ELSE all_posts \o MarkAccount(pages[n], RESEARCH_ACCOUNTS[n]))

FetchFromAccounts(pages, limit) == AccountsLoop(pages, Len(pages), limit)

\* RSSMethod.fetch_posts: sorted_entries[:limit].
RssFetchPosts(entries, limit) ==
    IF limit <= 0 THEN <<>> ELSE SubSeq(entries, 1, Min(Len(entries), limit))

(***************************************************************************)
(* State.                                                                  *)
(*   now             time.time(), in ticks                                 *)
(*   cache           CacheManager.cache                                    *)
(*   nitter_failing  TwitterFetcher.nitter_failing                         *)
(*   inv             the invocations of fetch_trending_posts: where each   *)
(*                   stands (pc), its arguments and locals, and what it    *)
(*                   returned                                              *)
(*   world           what the adapters deliver: anything (fixed = FALSE),  *)
(*                   or the same outcomes at every call (fixed = TRUE)     *)
(*   prev            under a fixed world, the invocation completed before  *)
(*                   the latest one                                        *)
(* The fields hit, caught, filtered, survivors, raw and attempted of an    *)
(* invocation record what it did (raw is len(all_posts) at its return);    *)
(* start and end, kept under a fixed world only, record when it was made   *)
(* and when it returned.                                                   *)
(*   calls           the number of invocations started                     *)
(*   probe           the direct use of a function or of the CacheManager,  *)
(*                   outside fetch_trending_posts: its inputs, its         *)
(*                   position and its outputs                              *)
(***************************************************************************)
VARIABLES now, cache, nitter_failing, inv, world, prev, calls, probe

vars == <<now, cache, nitter_failing, inv, world, prev, calls, probe>>

NoProbe == [pc |-> "none"]

Procs == {"c1"}

Idle ==
    [pc |-> "idle", query |-> None, limit |-> 1, search_query |-> None,
     cache_key |-> None, all_posts |-> <<>>, attempted |-> <<>>,
     result |-> <<>>, raised |-> FALSE, hit |-> FALSE, caught |-> FALSE,
     filtered |-> FALSE, survivors |-> 0, raw |-> 0, start |-> 0, end |-> 0]

FreeWorld ==
    [fixed |-> FALSE, nitter |-> Raises, accounts |-> Raises, rss |-> Raises]

FixedWorlds ==
    [fixed : {TRUE}, nitter : NitterOutcomes, accounts : AccountsOutcomes,
     rss : RssOutcomes]

InitFetcher ==
    /\ now = 0
    /\ cache = <<>>
    /\ nitter_failing = FALSE
    /\ inv = [p \in Procs |-> Idle]
    /\ prev = Idle
    /\ calls = 0

Init == InitFetcher /\ world = FreeWorld /\ probe = NoProbe

InitFixed == InitFetcher /\ world \in FixedWorlds /\ probe = NoProbe

(***************************************************************************)
(* twitter_fetcher.py: fetch_trending_posts, from one suspension point to  *)
(* the next.  Each operator takes the invocation r, the cache c and the    *)
(* time t, and gives the invocation and the cache at the next await or at  *)
(* the return.                                                             *)
(***************************************************************************)
Returned(r, result) ==
    [r EXCEPT !.pc = "done", !.result = result, !.raised = FALSE,
              !.raw = Len(r.all_posts), !.all_posts = <<>>]

\* The handler that lets the exception through to the caller.
OnException_Reraised(r, c, t) ==
    [inv |-> [Returned(r, <<>>) EXCEPT !.caught = TRUE, !.raised = TRUE],
     cache |-> c]

\* except Exception: log and return [].
OnException(r, c, t) ==
    [inv |-> [Returned(r, <<>>) EXCEPT !.caught = TRUE], cache |-> c]

\* filtered_posts[:limit]
Truncate(posts, limit) ==
    Bind(posts,
         LAMBDA ps : SubSeq(ps, 1, IF limit >= 0 THEN Min(limit, Len(ps))
                                   ELSE Max(0, Len(ps) + limit)))

\* Finish caching the filtered posts before their truncation to limit.
Finish_CachesAll(r, c, t) ==
    IF r.all_posts # <<>>
    THEN Bind(enhance_posts(filter_and_score_posts(r.all_posts, r.search_query, t)),
              LAMBDA filtered_posts :
                [inv |-> [Returned(r, Truncate(filtered_posts, r.limit))
                            EXCEPT !.filtered = TRUE,
                                   !.survivors =
                                      Survivors(r.all_posts, r.search_query, t)],
                 cache |-> CacheSet(c, r.cache_key, filtered_posts, t)])
    ELSE [inv |-> Returned(r, <<>>), cache |-> c]

\* Lines 96-113: filter, truncate, enhance, cache, return.
Finish(r, c, t) ==
    IF r.all_posts # <<>>
    THEN Bind(enhance_posts(
                Truncate(filter_and_score_posts(r.all_posts, r.search_query, t),
                         r.limit)),
              LAMBDA enhanced_posts :
                [inv |-> [Returned(r, enhanced_posts)
                            EXCEPT !.filtered = TRUE,
                                   !.survivors =
                                      Survivors(r.all_posts, r.search_query, t)],
                 cache |-> CacheSet(c, r.cache_key, enhanced_posts, t)])
    ELSE [inv |-> Returned(r, <<>>), cache |-> c]

\* Method 3 going back to the Nitter search instead of the RSS feeds.
Method3_SearchAgain(r, c, t) ==
    IF Len(r.all_posts) < r.limit
    THEN [inv |-> [r EXCEPT !.pc = "nitter", !.attempted = Append(@, "nitter")],
          cache |-> c]
    ELSE Finish(r, c, t)

\* Lines 87-94: method 3, RSS.
Method3(r, c, t) ==
    IF Len(r.all_posts) < r.limit
    THEN [inv |-> [r EXCEPT !.pc = "rss", !.attempted = Append(@, "rss")],
          cache |-> c]
    ELSE Finish(r, c, t)

\* Lines 78-85: method 2, the research accounts.
Method2(r, c, t) ==
    IF Len(r.all_posts) < r.limit * NITTER_FACTOR
    THEN [inv |-> [r EXCEPT !.pc = "accounts", !.attempted = Append(@, "accounts")],
          cache |-> c]
    ELSE Method3(r, c, t)

\* Method 1 tried whatever the flag says.
Method1_IgnoresFlag(r, c, t, failing) ==
    [inv |-> [r EXCEPT !.pc = "nitter", !.attempted = Append(@, "nitter")],
     cache |-> c]

\* Lines 66-69: method 1, the Nitter search.
Method1(r, c, t, failing) ==
    IF ~failing
    THEN [inv |-> [r EXCEPT !.pc = "nitter", !.attempted = Append(@, "nitter")],
          cache |-> c]
    ELSE Method2(r, c, t)

\* The lookup that never uses what the cache holds.
Lookup_Ignored(r, c, t, failing) ==
    Method1(r, CacheAfterGet(c, r.cache_key, t), t, failing)

\* Lines 53-61: the cache lookup.
Lookup(r, c, t, failing) ==
    Bind(CacheGet(c, r.cache_key, t),
         LAMBDA cached_posts :
           IF cached_posts.found /\ cached_posts.value # <<>>
           THEN [inv |-> [Returned(r, cached_posts.value) EXCEPT !.hit = TRUE],
                 cache |-> CacheAfterGet(c, r.cache_key, t)]
           ELSE Method1(r, CacheAfterGet(c, r.cache_key, t), t, failing))

(***************************************************************************)
(* Actions.                                                                *)
(***************************************************************************)
\* The invocation with the time of its return recorded.
Stamp(r) ==
    IF world.fixed /\ r.pc = "done" THEN [r EXCEPT !.end = now] ELSE r

\* A caller invokes fetch_trending_posts(query, limit).
Call(p) ==
    /\ inv[p].pc \in {"idle", "done"}
    /\ calls < MaxCalls
    /\ \E query \in QueryArgs, limit \in Limits :
         \E search_query \in SearchQueries(query) :
            \E r \in {[Idle EXCEPT !.query = query, !.limit = limit,
                                    !.search_query = search_query,
                                    !.cache_key = CacheKey(search_query),
                                    !.start = IF world.fixed THEN now ELSE 0]} :
              \E next \in {Lookup(r, cache, now, nitter_failing)} :
                /\ inv' = [inv EXCEPT ![p] = Stamp(next.inv)]
                /\ cache' = next.cache
    /\ prev' = IF world.fixed THEN inv[p] ELSE prev
    /\ calls' = calls + 1
    /\ UNCHANGED <<now, nitter_failing, world, probe>>

\* nitter_method.fetch_posts(search_query, limit*2) completes.
NitterReturn(p) ==
    /\ inv[p].pc = "nitter"
    /\ \E outcome \in NitterOutcomes :
         /\ world.fixed => outcome = world.nitter
         /\ \E nitter_posts \in {NitterFetchPosts(outcome.posts,
                                                    inv[p].limit * NITTER_FACTOR)} :
              \E r \in {[inv[p] EXCEPT !.all_posts = @ \o nitter_posts]} :
                \E next \in {IF outcome.raises THEN OnException(inv[p], cache, now)
                              ELSE Method2(r, cache, now)} :
                  /\ inv' = [inv EXCEPT ![p] = Stamp(next.inv)]
                  /\ cache' = next.cache
                  /\ nitter_failing' = IF ~outcome.raises /\ nitter_posts = <<>>
                                       THEN TRUE ELSE nitter_failing
    /\ UNCHANGED <<now, world, prev, calls, probe>>

\* nitter_method.fetch_from_accounts(limit*2) completes.
AccountsReturn(p) ==
    /\ inv[p].pc = "accounts"
    /\ \E outcome \in AccountsOutcomes :
         /\ world.fixed => outcome = world.accounts
         /\ \E account_posts \in {FetchFromAccounts(outcome.posts,
                                                      inv[p].limit * NITTER_FACTOR)} :
              \E r \in {[inv[p] EXCEPT !.all_posts = @ \o account_posts]} :
                \E next \in {Method3(r, cache, now)} :
                  /\ inv' = [inv EXCEPT ![p] = Stamp(next.inv)]
                  /\ cache' = next.cache
    /\ UNCHANGED <<now, nitter_failing, world, prev, calls, probe>>

\* rss_method.fetch_posts(search_query, limit*2) completes.
RssReturn(p) ==
    /\ inv[p].pc = "rss"
    /\ \E outcome \in RssOutcomes :
         /\ world.fixed => outcome = world.rss
         /\ \E rss_posts \in {RssFetchPosts(outcome.posts,
                                              inv[p].limit * NITTER_FACTOR)} :
              \E r \in {[inv[p] EXCEPT !.all_posts = @ \o rss_posts]} :
                \E next \in {Finish(r, cache, now)} :
                  /\ inv' = [inv EXCEPT ![p] = Stamp(next.inv)]
                  /\ cache' = next.cache
    /\ UNCHANGED <<now, nitter_failing, world, prev, calls, probe>>

\* Four hours pass.
Tick ==
    /\ now < MaxTime
    /\ now' = now + 1
    /\ UNCHANGED <<cache, nitter_failing, inv, world, prev, calls, probe>>

Next ==
    \/ \E p \in Procs : Call(p)
    \/ \E p \in Procs : NitterReturn(p)
    \/ \E p \in Procs : AccountsReturn(p)
    \/ \E p \in Procs : RssReturn(p)
    \/ Tick

Spec == Init /\ [][Next]_vars

SpecFixed == InitFixed /\ [][Next]_vars

(***************************************************************************)
(* Properties of fetch_trending_posts.  An invocation that has returned    *)
(* has pc = "done"; its record keeps what it was asked and what it did.    *)
(***************************************************************************)
Done(p) == inv[p].pc = "done"

Urls(posts) == {posts[i].url : i \in 1..Len(posts)}

Authors(posts) == {Get(posts[i], "author_username", "") : i \in 1..Len(posts)}

\* C1: a call with a positive limit returns at most limit posts.  The code
\* keys the cache on the query alone, so a list cached by a call with a
\* larger limit is returned whole to a later call with a smaller one.
C1_AtMostLimit ==
    \A p \in Procs :
        Done(p) /\ inv[p].limit >= 1 => Len(inv[p].result) <= inv[p].limit

\* C2: no two posts of a returned list have the same URL.  The code merges
\* the adapters' posts without comparing URLs, so a post found by the search
\* and again on its author's page is returned twice.
C2_DistinctUrls ==
    \A p \in Procs :
        Done(p) => Cardinality(Urls(inv[p].result)) = Len(inv[p].result)

\* C3: no author_username occurs more than MAX_PER_SOURCE times in a
\* returned list.  The code never relaxes the cap, so the exception the
\* sentence allows for is never used and the cap holds without it.
C3_DiversityCap ==
    \A p \in Procs :
        Done(p) =>
            \A source \in Authors(inv[p].result) :
                CountSource(inv[p].result, source) <= MAX_PER_SOURCE

\* C3, witness: three candidates of one author survived the filter of a call
\* that asked for three posts, and two of them were returned.
C3_Witness ==
    \E p \in Procs :
        /\ Done(p) /\ inv[p].filtered
        /\ inv[p].limit >= 3 /\ inv[p].survivors >= 3
        /\ CountSource(inv[p].result, "OpenAI") = MAX_PER_SOURCE

\* C4: when at least limit candidates survive the filter, the call returns
\* exactly limit posts, the cap being relaxed where that is needed.  The
\* code drops the posts over the cap and returns fewer.
C4_RelaxedToLimit ==
    \A p \in Procs :
        Done(p) /\ inv[p].filtered /\ inv[p].limit >= 1
                /\ inv[p].survivors >= inv[p].limit
            => Len(inv[p].result) = inv[p].limit

\* A step in which p invokes fetch_trending_posts.
Calls(p) == calls' = calls + 1 /\ inv'[p] # inv[p]

\* The invocation p makes in this step is answered from the cache: it
\* returns the value cached under its key without attempting an adapter,
\* and leaves what the cache holds and nitter_failing as they were.
AnsweredFromCache(p) ==
    /\ inv'[p].pc = "done"
    /\ inv'[p].result = CacheGet(cache, inv'[p].cache_key, now).value
    /\ inv'[p].attempted = <<>>
    /\ CacheContents(cache') = CacheContents(cache)
    /\ nitter_failing' = nitter_failing

\* C5 as stated: a call whose key has an unexpired entry in the cache is
\* answered from the cache.  An unexpired entry holding the empty list is
\* treated as a miss by the code, which then runs the adapters.
C5_AnyEntry ==
    [][\A p \in Procs :
          Calls(p) /\ CacheLive(cache, inv'[p].cache_key, now)
              => AnsweredFromCache(p)]_vars

\* C5: a call whose key has an unexpired entry holding a non-empty list is
\* answered from the cache: it returns exactly that list, attempts no
\* adapter, and leaves the cache contents and nitter_failing unchanged.
C5_NonEmptyEntry ==
    [][\A p \in Procs :
          Calls(p) /\ CacheLive(cache, inv'[p].cache_key, now)
                   /\ CacheGet(cache, inv'[p].cache_key, now).value # <<>>
              => AnsweredFromCache(p)]_vars

\* C5, witness: a call has been answered from the cache.
C5_Witness ==
    \E p \in Procs : Done(p) /\ inv[p].hit /\ inv[p].attempted = <<>>

\* Under a fixed world: p's latest call has returned, and so had the call
\* before it, which was made with the same arguments on the same fetcher.
Repeated(p) ==
    /\ world.fixed
    /\ Done(p) /\ prev.pc = "done"
    /\ prev.query = inv[p].query /\ prev.limit = inv[p].limit

\* C6 as stated: with the adapters' answers fixed, a call repeated with the
\* same arguments within the cache TTL of the first returns the list the
\* first returned, an absent query included.  With an absent query each call
\* draws its own default topic, and the two lists can differ.
C6_AnyQuery ==
    \A p \in Procs :
        Repeated(p) /\ inv[p].start - prev.start < CACHE_TTL
            => inv[p].result = prev.result

\* C6: with the adapters' answers fixed, a call repeated with the same
\* supplied query and the same limit returns the list the first returned
\* whenever the second is answered from the cache or the first returned the
\* empty list.
C6_SuppliedQuery ==
    \A p \in Procs :
        Repeated(p) /\ inv[p].query # None
                    /\ (inv[p].hit \/ prev.result = <<>>)
            => inv[p].result = prev.result

\* C6, witness: a call with a supplied query was repeated and answered from
\* the cache with the non-empty list the first call had computed.
C6_Witness ==
    \E p \in Procs :
        /\ Repeated(p) /\ inv[p].query # None
        /\ inv[p].hit /\ prev.filtered
        /\ inv[p].result = prev.result /\ inv[p].result # <<>>

Attempted(p) == {inv[p].attempted[i] : i \in 1..Len(inv[p].attempted)}

C8_EmptyNotRaised ==
    \A p \in Procs :
        Done(p) =>
            /\ ~inv[p].raised
            /\ inv[p].caught => inv[p].result = <<>>
            /\ ~inv[p].hit /\ ~inv[p].filtered => inv[p].result = <<>>
            /\ inv[p].filtered /\ inv[p].survivors = 0 => inv[p].result = <<>>

\* C8, witness: the Nitter search threw and the call returned the empty list.
C8_Witness ==
    \E p \in Procs :
        Done(p) /\ inv[p].caught /\ inv[p].result = <<>> /\ ~inv[p].raised

\* C9: a call with a limit below 1 ends in a contract-violation error.  The
\* code never inspects limit: such a call returns a list, and on a fresh
\* fetcher it sets nitter_failing on the way.
C9_LimitRejected ==
    \A p \in Procs : Done(p) /\ inv[p].limit < 1 => inv[p].raised

\* The fields the consumers of a returned post read.
OutputFields ==
    {"title", "url", "author", "description", "created_utc", "relevance_score"}

\* C10: every returned post carries the fields of the output format.  The
\* filter formats with its own placeholder, which returns the post as the
\* adapter built it.
C10_OutputFormat ==
    \A p \in Procs :
        Done(p) =>
            \A i \in 1..Len(inv[p].result) :
                OutputFields \subseteq DOMAIN inv[p].result[i]

(***************************************************************************)
(* The filter used directly.  A probe holds the list of candidates and the *)
(* query given to filter_and_score_posts; ScoreFirst applies               *)
(* calculate_relevance_score and calculate_quality_score to the first      *)
(* candidate as the filter loop does, Filter applies                       *)
(* filter_and_score_posts to the list.                                     *)
(***************************************************************************)
\* The dict d without the key k.
Without(d, k) == [j \in DOMAIN d \ {k} |-> d[j]]

AliceName == Str(<<"alice">>, 5, 1, 0)

CarolName == Str(<<"carol">>, 5, 1, 0)

\* Candidates as _parse_nitter_content builds them.  F1..F5 differ in their
\* keywords and in the length of their content, F6..F9 in age and
\* engagement, F10..F13 in flags, timestamp and repeated keywords.
F1 == Tweet("https://nitter.net/alice/status/1", AliceName, "alice",
            Str(<<"hello">>, 120, 3, 0), -10, 1, 0, 0)

F2 == Tweet("https://nitter.net/alice/status/2", AliceName, "alice",
            Str(<<"dataset">>, 120, 3, 0), -10, 1, 0, 0)

F3 == Tweet("https://nitter.net/carol/status/3", CarolName, "carol",
            Str(<<"llm">>, 99, 3, 0), -10, 1, 0, 0)

F4 == Tweet("https://nitter.net/carol/status/4", CarolName, "carol",
            Str(<<"llm">>, 100, 3, 0), -20, 1, 0, 0)

F5 == Tweet("https://nitter.net/alice/status/5", AliceName, "alice",
            Str(<<"llm", "dataset">>, 90, 3, 0), -10, 1, 0, 0)

F6 == Tweet("https://nitter.net/alice/status/6", AliceName, "alice",
            Str(<<"llm">>, 120, 3, 0), -50, 98, 0, 1)

F7 == Tweet("https://nitter.net/alice/status/7", AliceName, "alice",
            Str(<<"llm">>, 120, 3, 0), -50, 100, 0, 0)

F8 == Tweet("https://nitter.net/alice/status/8", AliceName, "alice",
            Str(<<"llm">>, 120, 3, 0), -50, 99, 0, 1)

F9 == Tweet("https://nitter.net/carol/status/9", CarolName, "carol",
            Str(<<"llm">>, 120, 3, 0), -WEEK, 1, 0, 0)

F10 == [Tweet("https://nitter.net/OpenAI/status/10", OpenAIName, "OpenAI",
              Str(<<"llm", "paper", "research", "code", "dataset", "algorithm",
                    "benchmarks">>, 5000, 40, 0), -1, 10, 2, 1)
          EXCEPT !.has_links = TRUE, !.media = [has_media |-> TRUE]]
       @@ [is_research_account |-> TRUE, source_account |-> "OpenAI"]

F11 == Without(Tweet("https://nitter.net/carol/status/11", CarolName, "carol",
                     Str(<<"llm">>, 120, 3, 0), 0, 120, 0, 0), "timestamp")

F12 == Tweet("https://nitter.net/carol/status/12", CarolName, "carol",
             Str(<<"llm">>, 50, 3, 0), MaxTime + 3, 1, 0, 0)

F13 == Tweet("https://nitter.net/alice/status/13", AliceName, "alice",
             Str(<<"llm", "llm", "algorithm">>, 120, 30, 0), -10, 1, 0, 0)

\* A tweet written in capitals.
F14 == Tweet("https://nitter.net/alice/status/14", AliceName, "alice",
             Str(<<"llm">>, 120, 100, 0), -10, 1, 0, 0)

Candidates == {F1, F2, F3, F4, F5, F6, F7, F8, F9, F10, F11, F12, F13, F14}

\* The lists of one candidate and of two different candidates.
CandidateLists ==
    {<<a>> : a \in Candidates}
    \cup {pair \in {<<a, b>> : a \in Candidates, b \in Candidates} :
                pair[1] # pair[2]}

FilterQueries == {None, "LLM", "gpt-4 paper"}

InitFilter ==
    /\ InitFetcher /\ world = FreeWorld
    /\ probe \in [pc : {"input"}, posts : CandidateLists, query : FilterQueries]

\* text, ai_relevance and quality_score of the first candidate, as lines
\* 62-73 of the filter loop compute them.
ScoreFirst ==
    /\ probe.pc = "input"
    /\ \E text \in {CombinedText(probe.posts[1])} :
         probe' = [pc |-> "scored", posts |-> probe.posts, query |-> probe.query,
                   text |-> text,
                   ai_relevance |-> calculate_relevance_score(text),
                   quality_score |->
                       calculate_quality_score(probe.posts[1], text,
                                               QueryTerms(probe.query), now),
                   at |-> now]
    /\ UNCHANGED <<now, cache, nitter_failing, inv, world, prev, calls>>

\* filter_and_score_posts(posts, query)
Filter ==
    /\ probe.pc = "input"
    /\ \E out \in {filter_and_score_posts(probe.posts, probe.query, now)} :
         probe' = [pc |-> "filtered", posts |-> probe.posts,
                   query |-> probe.query, out |-> out, at |-> now]
    /\ UNCHANGED <<now, cache, nitter_failing, inv, world, prev, calls>>

NextFilter == ScoreFirst \/ Filter \/ Tick

SpecFilter == InitFilter /\ [][NextFilter]_vars

(***************************************************************************)
(* Properties of the filter.                                               *)
(***************************************************************************)
\* The candidate passes lines 59-70: it has text and its relevance reaches
\* the minimum.
PassesRelevance(post) ==
    HasText(post) /\ calculate_relevance_score(CombinedText(post)) >= MIN_RELEVANCE

\* The candidate passes lines 73-77: quality and spam.
PassesQuality(post, query, t) ==
    /\ calculate_quality_score(post, CombinedText(post), QueryTerms(query), t)
         >= QUALITY_MIN
    /\ ~contains_spam(CombinedText(post))

\* The candidate is in the list the filter returned.
Kept(post) == \E i \in 1..Len(probe.out) : probe.out[i].url = post.url

\* C11: the relevance step drops a candidate exactly when the relevance of
\* its author, content and title is below 2.0: no candidate below 2.0 is
\* returned, every returned post carries its relevance, at least 2.0, and a
\* candidate at 2.0 or above that passes the later steps is returned.
C11_RelevanceThreshold ==
    probe.pc = "filtered" =>
        /\ \A i \in 1..Len(probe.out) :
              /\ probe.out[i].ai_relevance >= MIN_RELEVANCE
              /\ probe.out[i].ai_relevance
                   = calculate_relevance_score(CombinedText(probe.out[i]))
        /\ \A j \in 1..Len(probe.posts) :
              LET post == probe.posts[j]
              IN  /\ ~PassesRelevance(post) => ~Kept(post)
                  /\ PassesRelevance(post)
                       /\ PassesQuality(post, probe.query, probe.at)
                       /\ ~IsStale(post, probe.at)
                     => Kept(post)

\* C11, witness: of two candidates the one scoring 1.0 was dropped and the
\* one scoring exactly 2.0 was returned.
C11_Witness ==
    /\ probe.pc = "filtered"
    /\ probe.posts = <<F2, F3>>
    /\ Len(probe.out) = 1
    /\ probe.out[1].url = F3.url /\ probe.out[1].ai_relevance = MIN_RELEVANCE

\* The keywords of a list that occur in a text.
Present(keywords, text) ==
    {keywords[i] : i \in {j \in 1..Len(keywords) : Occurs(keywords[j], text)}}

\* The text with every token written twice.
Repeated2(text) ==
    Str(text.toks \o text.toks, 2 * text.len, 2 * text.upper, 2 * text.hashes)

\* C12: calculate_relevance_score(text) is 2.0 for each distinct
\* high-relevance term present in the text plus 1.0 for each distinct
\* medium-relevance term present, hence 0.0 when none is present, and
\* repeating the terms of the text does not change it.
C12_RelevanceIsMembership ==
    probe.pc = "scored" =>
        /\ probe.ai_relevance
             = HIGH_WEIGHT * Cardinality(Present(HIGH_RELEVANCE, probe.text))
               + MEDIUM_WEIGHT * Cardinality(Present(MEDIUM_RELEVANCE, probe.text))
        /\ calculate_relevance_score(Repeated2(probe.text)) = probe.ai_relevance

\* C12, witness: a text naming "llm" twice and "algorithm" once scored 3.0.
C12_Witness ==
    /\ probe.pc = "scored"
    /\ probe.posts[1] = F13
    /\ probe.ai_relevance = HIGH_WEIGHT + MEDIUM_WEIGHT

\* C13: calculate_quality_score returns a value from 1.0 to 5.0 whatever
\* quality terms are present, whatever the research-account, links and
\* media flags are, whatever the length of the text is, and whether the
\* timestamp is past, future or absent.
C13_QualityRange ==
    probe.pc = "scored" =>
        QUALITY_MIN <= probe.quality_score /\ probe.quality_score <= QUALITY_MAX

\* C13, witness: a recent post of a research account with links, media and
\* seven quality terms, whose bonuses add up to more than 5.0, scored 5.0.
C13_Witness ==
    /\ probe.pc = "scored"
    /\ probe.posts[1] = F10
    /\ probe.quality_score = QUALITY_MAX

\* C14: in the quality scoring of the filter a candidate whose content is
\* exactly 99 characters long gets the short-content penalty and one whose
\* content is exactly 100 characters long does not, whatever its author name
\* and title are: its quality is the one computed with the length of its
\* content.  The code measures the combined "author content title" text,
\* which is at least two characters longer than the content.
C14_PenaltyOnContentLength ==
    probe.pc = "scored"
      /\ Get(probe.posts[1], "content", EmptyStr).len \in {SHORT_LENGTH - 1, SHORT_LENGTH}
    => probe.quality_score
         = calculate_quality_score(
               probe.posts[1],
               [probe.text EXCEPT !.len = Get(probe.posts[1], "content", EmptyStr).len],
               QueryTerms(probe.query), probe.at)

\* The candidate is older than seven days at time t (line 80; a candidate
\* without timestamp counts as published at the epoch).
Older(post, t) == Get(post, "timestamp", EPOCH) < t - WEEK

\* C15 as stated: a candidate that passed the relevance, quality and spam
\* steps is kept exactly when it is at most 7 days old or its raw engagement
\* exceeds 100.  The code keeps an older candidate at exactly 100 too.
C15_KeptAboveOverride ==
    probe.pc = "filtered" =>
        \A j \in 1..Len(probe.posts) :
            LET post == probe.posts[j]
            IN  PassesRelevance(post) /\ PassesQuality(post, probe.query, probe.at)
                => (Kept(post) <=>
                        \/ ~Older(post, probe.at)
                        \/ Get(post, "raw_engagement_score", 0) > HIGH_ENGAGEMENT)

\* C15: a candidate that passed the relevance, quality and spam steps is
\* kept exactly when it is at most 7 days old or its raw engagement is at
\* least 100.
C15_KeptFromOverride ==
    probe.pc = "filtered" =>
        \A j \in 1..Len(probe.posts) :
            LET post == probe.posts[j]
            IN  PassesRelevance(post) /\ PassesQuality(post, probe.query, probe.at)
                => (Kept(post) <=>
                        \/ ~Older(post, probe.at)
                        \/ Get(post, "raw_engagement_score", 0) >= HIGH_ENGAGEMENT)

\* C15, witness: of two candidates older than 7 days the one with
\* engagement 99.5 was discarded and the one with exactly 100 was kept.
C15_Witness ==
    /\ probe.pc = "filtered"
    /\ probe.posts = <<F6, F7>>
    /\ Len(probe.out) = 1 /\ probe.out[1].url = F7.url
    /\ probe.out[1].raw_engagement_score = HIGH_ENGAGEMENT

(***************************************************************************)
(* Properties of the order and of the scores of the returned posts.        *)
(***************************************************************************)
\* The posts are in non-increasing order of final_score.
Descending(posts) ==
    \A i \in 1..Len(posts) : \A j \in 1..Len(posts) :
        i < j => FinalScore(posts[i]) >= FinalScore(posts[j])

\* C16: every list fetch_trending_posts returns is in non-increasing order
\* of final_score, whatever the order in which the adapters delivered the
\* candidates: the diversity pass, the truncation to limit and the
\* enhancement keep the order of the sort.
C16_DescendingFinalScore ==
    \A p \in Procs : Done(p) => Descending(inv[p].result)

\* C16, witness: a post of the RSS adapter, which is asked last, was
\* returned before a post of the Nitter search with a lower final_score.
C16_Witness ==
    \E p \in Procs :
        /\ Done(p) /\ inv[p].filtered /\ Len(inv[p].result) >= 2
        /\ inv[p].result[1].type = "rss_post"
        /\ inv[p].result[2].type = "twitter_post"
        /\ FinalScore(inv[p].result[1]) > FinalScore(inv[p].result[2])

\* C17: of two returned posts with equal final_score the one published more
\* recently comes first, whatever the order in which they were delivered.
\* The code sorts on final_score alone, and the sort is stable: posts with
\* equal scores stay in the order of delivery.
C17_TiesByRecency ==
    probe.pc = "filtered" =>
        \A i \in 1..Len(probe.out) : \A j \in 1..Len(probe.out) :
            i < j /\ FinalScore(probe.out[i]) = FinalScore(probe.out[j])
                => Get(probe.out[i], "timestamp", EPOCH)
                     >= Get(probe.out[j], "timestamp", EPOCH)

\* The final score of a returned post before the query-match multiplier
\* (lines 84-88), from the scores the post carries.
BaseScore(post) ==
    post.ai_relevance * RELEVANCE_FACTOR
    + post.quality_score * QUALITY_FACTOR
    + Min(Get(post, "raw_engagement_score", 0) * ENGAGEMENT_FACTOR, ENGAGEMENT_CAP)

\* The final score of a returned post when the multiplier is applied
\* exactly for a term of query occurring in the text of the post.
ScoreUnder(post, query) ==
    IF AnyOccurs(QueryTerms(query), CombinedText(post))
    THEN (BaseScore(post) * BOOST_NUM) \div BOOST_DEN
    ELSE BaseScore(post)

\* C18 as stated: the 1.5 multiplier is applied to a candidate exactly when
\* the caller supplied a query and a term of it occurs in the candidate
\* text; in a call without a query no final_score is multiplied.  The code
\* hands the filter the search query in effect, which for a call without a
\* query is the default topic it drew.
C18_BoostForCallerQuery ==
    \A p \in Procs :
        Done(p) /\ inv[p].filtered =>
            \A i \in 1..Len(inv[p].result) :
                FinalScore(inv[p].result[i])
                    = ScoreUnder(inv[p].result[i], inv[p].query)

\* C18: the 1.5 multiplier is applied to a candidate exactly when a term of
\* the search query in effect, the caller's or the default topic drawn for
\* a call without one, occurs in the candidate text.
C18_BoostForSearchQuery ==
    \A p \in Procs :
        Done(p) /\ inv[p].filtered =>
            \A i \in 1..Len(inv[p].result) :
                FinalScore(inv[p].result[i])
                    = ScoreUnder(inv[p].result[i], inv[p].search_query)

\* C18, witness: a call without a query returned one post multiplied for
\* the topic drawn and one post not multiplied.
C18_Witness ==
    \E p \in Procs :
        /\ Done(p) /\ inv[p].filtered /\ inv[p].query = None
        /\ \E i \in 1..Len(inv[p].result) :
              FinalScore(inv[p].result[i]) > BaseScore(inv[p].result[i])
        /\ \E i \in 1..Len(inv[p].result) :
              FinalScore(inv[p].result[i]) = BaseScore(inv[p].result[i])

(***************************************************************************)
(* The CacheManager used directly: get and set on a cache that starts      *)
(* empty or full.  The probe keeps the history of the operations: the time *)
(* and value of the latest set of each key, the keys evicted for room      *)
(* since their latest set, and the keys in the order of their latest set   *)
(* and of their latest use (a set, or a get that found the key).           *)
(***************************************************************************)
FillerKey(i) == "key_" \o ToString(i)

\* A cache filled to maxsize at time 0, in the order of the keys.
FullCache ==
    [i \in 1..CACHE_MAXSIZE |->
        [key |-> FillerKey(i), value |-> <<>>, expires |-> CACHE_TTL]]

\* The keys get and set are called with: one of the full cache and two others.
OpKeys == {FillerKey(1), CacheKey("LLM"), CacheKey("gpt-4 paper")}

OpValues == {<<T4>>, <<R1>>}

Keys(c) == {c[i].key : i \in 1..Len(c)}

RemoveKey(order, key) == SelectSeq(order, LAMBDA k : k # key)

\* The history of a cache whose entries were all set at time 0.
HistoryOf(c) ==
    [pc |-> "cache", ops |-> 0, op |-> "none", key |-> None,
     got |-> [found |-> FALSE, value |-> <<>>],
     sets |-> [k \in Keys(c) |-> [at |-> 0, value |-> c[CacheIndex(c, k)].value]],
     evicted |-> {},
     set_order |-> [i \in 1..Len(c) |-> c[i].key],
     use_order |-> [i \in 1..Len(c) |-> c[i].key]]

InitCache ==
    /\ now = 0
    /\ cache \in {<<>>, FullCache}
    /\ nitter_failing = FALSE
    /\ inv = [p \in Procs |-> Idle]
    /\ prev = Idle
    /\ calls = 0
    /\ world = FreeWorld
    /\ probe = HistoryOf(cache)

\* CacheManager.get(key)
CacheManagerGet(key) ==
    /\ probe.pc = "cache" /\ probe.ops < MaxOps
    /\ \E got \in {CacheGet(cache, key, now)} :
         /\ cache' = CacheAfterGet(cache, key, now)
         /\ probe' = [probe EXCEPT
                        !.ops = @ + 1, !.op = "get", !.key = key, !.got = got,
                        !.use_order = IF got.found
                                      THEN Append(RemoveKey(@, key), key) ELSE @]
    /\ UNCHANGED <<now, nitter_failing, inv, world, prev, calls>>

\* CacheManager.set(key, value)
CacheManagerSet(key, value) ==
    /\ probe.pc = "cache" /\ probe.ops < MaxOps
    /\ \E after \in {CacheSet(cache, key, value, now)} :
         /\ cache' = after
         /\ probe' = [probe EXCEPT
                        !.ops = @ + 1, !.op = "set", !.key = key,
                        !.sets = Put(@, key, [at |-> now, value |-> value]),
                        !.evicted = (@ \ {key})
                                    \cup (Keys(Expire(cache, now)) \ Keys(after)),
                        !.set_order = Append(RemoveKey(@, key), key),
                        !.use_order = Append(RemoveKey(@, key), key)]
    /\ UNCHANGED <<now, nitter_failing, inv, world, prev, calls>>

NextCache ==
    \/ \E key \in OpKeys : CacheManagerGet(key)
    \/ \E key \in OpKeys, value \in OpValues : CacheManagerSet(key, value)
    \/ Tick

SpecCache == InitCache /\ [][NextCache]_vars

(***************************************************************************)
(* Properties of the CacheManager.                                         *)
(***************************************************************************)
\* A call of fetch_trending_posts, with a valid limit, whose key is key.
CallFor(key) == [Idle EXCEPT !.cache_key = key, !.limit = 1]

\* C19: once the TTL or more has passed since the latest set(key, v),
\* get(key) returns no value, and a fetch_trending_posts for that key goes
\* to the adapters; before the TTL has passed, and unless the entry was
\* evicted for room, get(key) returns v.
C19_ExpiresAfterTTL ==
    probe.pc = "cache" =>
        \A key \in DOMAIN probe.sets :
            LET latest == probe.sets[key]
                got == CacheGet(cache, key, now)
            IN  /\ now - latest.at >= CACHE_TTL =>
                      /\ ~got.found
                      /\ \A failing \in BOOLEAN :
                            Lookup(CallFor(key), cache, now, failing).inv.attempted
                                # <<>>
                /\ now - latest.at < CACHE_TTL /\ key \notin probe.evicted =>
                      got.found /\ got.value = latest.value

\* C19, witness: a get found nothing for a key that was set a TTL ago and
\* whose entry is still in the cache's store.
C19_Witness ==
    /\ probe.pc = "cache" /\ probe.op = "get"
    /\ probe.key \in DOMAIN probe.sets
    /\ now - probe.sets[probe.key].at = CACHE_TTL
    /\ probe.key \in Keys(cache)
    /\ ~probe.got.found

\* This step is a set of a key the cache does not hold, into a cache that is
\* full and has no expired entry.
SetsNewKeyIntoFull ==
    /\ probe.pc = "cache" /\ probe'.ops = probe.ops + 1 /\ probe'.op = "set"
    /\ probe'.key \notin Keys(cache)
    /\ Len(cache) = CACHE_MAXSIZE
    /\ \A i \in 1..Len(cache) : now < cache[i].expires

\* The first key of an order that the cache holds.
FirstHeld(order) == SelectSeq(order, LAMBDA k : k \in Keys(cache))[1]

\* This step removes exactly the entry of victim and admits the key set.
Replaces(victim) == Keys(cache') = (Keys(cache) \ {victim}) \cup {probe'.key}

ADAPTER_ORDER == <<"nitter", "accounts", "rss">>

Rank(adapter) == CHOOSE i \in 1..Len(ADAPTER_ORDER) : ADAPTER_ORDER[i] = adapter

\* The adapter call p is suspended on, if any.
InFlight(p) ==
    IF inv[p].pc \in {ADAPTER_ORDER[i] : i \in 1..Len(ADAPTER_ORDER)}
    THEN {inv[p].pc} ELSE {}

\* C21: within one invocation the adapters are attempted one at a time in
\* the order Nitter search, account fetch, RSS: the attempts made so far
\* follow that order without repetition, the only adapter call in flight is
\* the one attempted last, and a step that starts an adapter is the step in
\* which the invocation was made or the adapter before it returned.
C21_OneAtATimeInOrder ==
    [][\A p \in Procs :
          LET before == inv[p].attempted
              after == inv'[p].attempted
          IN /\ \A i, j \in 1..Len(after) :
                    i < j => Rank(after[i]) < Rank(after[j])
             /\ InFlight(p)' # {} =>
                    after # <<>> /\ InFlight(p)' = {after[Len(after)]}
             /\ InFlight(p)' # {} /\ inv'[p] # inv[p] =>
                    /\ InFlight(p)' # InFlight(p)
                    /\ \/ Calls(p) /\ Len(after) = 1
                       \/ /\ InFlight(p) = {before[Len(before)]}
                          /\ after = Append(before, inv'[p].pc)]_vars

\* C21, witness: an invocation attempted the three adapters and returned.
C21_Witness ==
    \E p \in Procs : Done(p) /\ inv[p].attempted = ADAPTER_ORDER

\* C22: on a cache miss in which no adapter threw, an adapter is skipped
\* only once the adapters before it have delivered NITTER_FACTOR x limit raw
\* candidates; in particular the RSS feeds are asked whenever fewer have
\* been gathered.  The code asks the RSS feeds only while fewer than limit
\* candidates are gathered, so with limit <= gathered < 2 x limit they are
\* skipped.
C22_AttemptedBelowMultiple ==
    \A p \in Procs :
        Done(p) /\ ~inv[p].hit /\ ~inv[p].caught
                /\ "rss" \notin Attempted(p)
            => inv[p].raw >= inv[p].limit * NITTER_FACTOR

(***************************************************************************)
(* Two callers of one TwitterFetcher.  fetch_trending_posts is a coroutine *)
(* of one event loop: an invocation runs from one await to the next        *)
(* without interruption, and another may run while it is suspended on an   *)
(* adapter.                                                                *)
(***************************************************************************)
Pair == {"c1", "c2"}

InitPair ==
    /\ now = 0
    /\ cache = <<>>
    /\ nitter_failing = FALSE
    /\ inv = [p \in Pair |-> Idle]
    /\ prev = Idle
    /\ calls = 0
    /\ world = FreeWorld
    /\ probe = NoProbe

\* A caller invokes fetch_trending_posts with a supplied query and a limit
\* of one or two posts.
CallPair(p) ==
    /\ Call(p)
    /\ inv'[p].query # None
    /\ inv'[p].limit \in 1..2

NextPair ==
    \/ \E p \in Pair : CallPair(p)
    \/ \E p \in Pair : NitterReturn(p)
    \/ \E p \in Pair : AccountsReturn(p)
    \/ \E p \in Pair : RssReturn(p)
    \/ Tick

SpecPair == InitPair /\ [][NextPair]_vars

\* C23: overlapping invocations for one key do not share a computation.  An
\* invocation that finds no non-empty unexpired entry under its key goes on
\* to the adapters whether or not another invocation for the key is in
\* flight, and an invocation that returns after filtering leaves its own
\* list as the entry of the key, whatever entry was written meanwhile.
C23_NoSingleFlight ==
    [][\A p \in Pair :
          /\ Calls(p) /\ ~(/\ CacheLive(cache, inv'[p].cache_key, now)
                           /\ CacheGet(cache, inv'[p].cache_key, now).value # <<>>)
                => /\ ~inv'[p].hit
                   /\ inv'[p].limit >= 1 => inv'[p].attempted # <<>>
          /\ inv[p].pc # "done" /\ inv'[p].pc = "done" /\ inv'[p].filtered
                => /\ CacheLive(cache', inv'[p].cache_key, now)
                   /\ CacheGet(cache', inv'[p].cache_key, now).value
                        = inv'[p].result]_vars

\* C23, witness: within one tick both callers asked for the same key, both
\* attempted adapters, both filtered and wrote a non-empty list (so neither
\* had returned when the other looked the key up), the lists differ, and
\* the entry of the key is the list of c1 and not that of c2.
C23_Witness ==
    /\ now = 0
    /\ \A p \in Pair :
          /\ inv[p].pc = "done" /\ inv[p].filtered /\ ~inv[p].hit
          /\ inv[p].attempted # <<>> /\ inv[p].result # <<>>
    /\ inv["c1"].cache_key = inv["c2"].cache_key
    /\ inv["c1"].result # inv["c2"].result
    /\ CacheGet(cache, inv["c1"].cache_key, now).value = inv["c1"].result

\* C24: the filter discards every candidate more than 30% of whose author,
\* content and title text is in uppercase.  The filter lower-cases the text
\* before contains_spam counts its uppercase characters, so the count is
\* always zero and a tweet written in capitals is returned.
C24_UppercaseDiscarded ==
    probe.pc = "filtered" =>
        \A j \in 1..Len(probe.posts) :
            LET post == probe.posts[j]
                text == Concat(Get(post, "author_name", EmptyStr),
                        Concat(Space,
                        Concat(Get(post, "content", EmptyStr),
                        Concat(Space, Get(post, "title", EmptyStr)))))
            IN  text.upper * 10 > 3 * Max(1, text.len) => ~Kept(post)

(***************************************************************************)
(* bot.py: news_update_lock, the scheduled job post_news_update and the    *)
(* !news command.  The coroutines run on one event loop; a step runs a     *)
(* coroutine from one await to the next.  asyncio.Lock.acquire() does not  *)
(* suspend when the lock is free and nobody waits for it.                  *)
(*   probe.locked   news_update_lock.locked()                              *)
(*   probe.task[t]  one run of a coroutine: where it stands (pc), whether  *)
(*                  it found the lock held (refused), whether it called    *)
(*                  fetch_news_async (fetched), and how it ended           *)
(*   probe.runs     the number of runs started                             *)
(***************************************************************************)
MaxRuns == 4

Tasks == {"post_news_update", "news_1", "news_2"}

NewRun == [pc |-> "idle", refused |-> FALSE, fetched |-> FALSE, ended |-> "no"]

InitBot ==
    /\ InitFetcher /\ world = FreeWorld
    /\ probe = [pc |-> "bot", locked |-> FALSE, runs |-> 0,
                task |-> [t \in Tasks |-> NewRun]]

\* The task leaves the async with block, normally or by an exception, while
\* the lock stays held.
Leave_KeepsLockOnError(b, t, how) ==
    [b EXCEPT !.locked = (how = "error"),
              !.task[t].pc = "done", !.task[t].ended = how]

\* The task leaves the async with block, normally or by an exception:
\* __aexit__ releases the lock.
Leave(b, t, how) ==
    [b EXCEPT !.locked = FALSE, !.task[t].pc = "done", !.task[t].ended = how]

\* Lines 89-95 and 169-175: the test of the lock and its acquisition, up to
\* the first await.
Begin(t) ==
    /\ probe.pc = "bot"
    /\ probe.task[t].pc \in {"idle", "done"}
    /\ probe.runs < MaxRuns
    /\ \E b \in {[probe EXCEPT !.runs = @ + 1, !.task[t] = NewRun]} :
         probe' =
            IF b.locked
            THEN IF t = "post_news_update"
                 THEN [b EXCEPT !.task[t].refused = TRUE, !.task[t].pc = "done",
                                !.task[t].ended = "skipped"]
                 ELSE [b EXCEPT !.task[t].refused = TRUE,
                                !.task[t].pc = "notify"]
            ELSE IF t = "post_news_update"
                 THEN [b EXCEPT !.locked = TRUE, !.task[t].pc = "fetch",
                                !.task[t].fetched = TRUE]
                 ELSE [b EXCEPT !.locked = TRUE, !.task[t].pc = "status"]
    /\ UNCHANGED <<now, cache, nitter_failing, inv, world, prev, calls>>

\* Line 170: ctx.send of the notice completes or raises; the command
\* returns.
Notified(t) ==
    /\ probe.pc = "bot"
    /\ probe.task[t].pc = "notify"
    /\ \E how \in {"skipped", "error"} :
         probe' = [probe EXCEPT !.task[t].pc = "done", !.task[t].ended = how]
    /\ UNCHANGED <<now, cache, nitter_failing, inv, world, prev, calls>>

\* Line 174: ctx.send of the status message completes, and the command goes
\* on to fetch_news_async, or raises.
StatusSent(t) ==
    /\ probe.pc = "bot"
    /\ probe.task[t].pc = "status"
    /\ \E raises \in BOOLEAN :
         probe' = IF raises THEN Leave(probe, t, "error")
                  ELSE [probe EXCEPT !.task[t].pc = "fetch",
                                     !.task[t].fetched = TRUE]
    /\ UNCHANGED <<now, cache, nitter_failing, inv, world, prev, calls>>

\* Lines 95-98 and 177-181: fetch_news_async returns content or nothing, or
\* raises.
FetchReturn(t) ==
    /\ probe.pc = "bot"
    /\ probe.task[t].pc = "fetch"
    /\ \E outcome \in {"content", "no_content", "error"} :
         probe' = IF outcome = "content"
                  THEN [probe EXCEPT !.task[t].pc = "post"]
                  ELSE Leave(probe, t, outcome)
    /\ UNCHANGED <<now, cache, nitter_failing, inv, world, prev, calls>>

\* Lines 100-116 and 183-197: the embeds are sent, or a send raises.
PostReturn(t) ==
    /\ probe.pc = "bot"
    /\ probe.task[t].pc = "post"
    /\ \E how \in {"posted", "error"} : probe' = Leave(probe, t, how)
    /\ UNCHANGED <<now, cache, nitter_failing, inv, world, prev, calls>>

NextBot ==
    \/ \E t \in Tasks : Begin(t)
    \/ \E t \in Tasks : Notified(t)
    \/ \E t \in Tasks : StatusSent(t)
    \/ \E t \in Tasks : FetchReturn(t)
    \/ \E t \in Tasks : PostReturn(t)

SpecBot == InitBot /\ [][NextBot]_vars

\* The tasks inside the async with block.
Holders == {t \in Tasks : probe.task[t].pc \in {"status", "fetch", "post"}}

\* C27: at most one news fetch is in progress across the scheduled job and
\* the !news commands; a run that found the lock held never fetches and
\* never waits for the lock (it is at its notice or has returned); and the
\* lock is held exactly while a run is inside the block, so that every exit,
\* exceptions included, has released it.
C27_OneNewsFetch ==
    probe.pc = "bot" =>
        /\ Cardinality({t \in Tasks : probe.task[t].pc = "fetch"}) <= 1
        /\ Cardinality(Holders) <= 1
        /\ probe.locked <=> Holders # {}
        /\ \A t \in Tasks :
              probe.task[t].refused =>
                  /\ ~probe.task[t].fetched
                  /\ probe.task[t].pc \in {"notify", "done"}
                  /\ t \notin Holders

\* C27, witness: while the scheduled job was fetching, a command found the
\* lock held and returned without fetching; another run had ended by an
\* exception inside the block before.
C27_Witness ==
    /\ probe.pc = "bot"
    /\ probe.task["post_news_update"].pc = "fetch"
    /\ probe.task["news_1"].refused /\ probe.task["news_1"].pc = "done"
    /\ probe.task["news_2"].ended = "error" /\ probe.task["news_2"].fetched

\* The number of raw candidates p has gathered.
Gathered(r) == IF r.pc = "done" THEN r.raw ELSE Len(r.all_posts)

\* C25: nitter_failing starts false, is set by the step in which a Nitter
\* search returns without posts and by no other step, and is never reset;
\* while it is set no step starts a Nitter search, whatever the query, and
\* a cache miss with a positive limit goes straight to the account fetch.
C25_FlagMonotone ==
    [][\A p \in Procs :
          LET returnsEmpty == /\ inv[p].pc = "nitter" /\ inv'[p].pc # "nitter"
                              /\ ~inv'[p].caught /\ Gathered(inv'[p]) = 0
          IN /\ calls = 0 => ~nitter_failing
             /\ nitter_failing => nitter_failing'
             /\ returnsEmpty => nitter_failing'
             /\ ~nitter_failing /\ nitter_failing' => returnsEmpty
             /\ nitter_failing /\ inv'[p] # inv[p] =>
                    /\ inv'[p].pc # "nitter"
                    /\ Calls(p) => "nitter" \notin Attempted(p)'
                    /\ Calls(p) /\ ~inv'[p].hit /\ inv'[p].limit >= 1 =>
                           inv'[p].attempted = <<"accounts">>]_vars

\* C25, witness: with the flag set by an earlier call, a call with another
\* query has missed the cache and returned after the account fetch and the
\* RSS feeds, without a Nitter search.
C25_Witness ==
    \E p \in Procs :
        /\ nitter_failing /\ calls = 2 /\ Done(p) /\ ~inv[p].hit
        /\ inv[p].attempted = <<"accounts", "rss">>

\* A step in which p, whose last invocation returned the empty list, makes
\* the next invocation with the same cache key.
CallsAgainAfterEmpty(p) ==
    /\ Calls(p)
    /\ inv[p].pc = "done" /\ inv[p].result = <<>>
    /\ inv'[p].cache_key = inv[p].cache_key

\* C26: the invocation after one that returned the empty list, with the
\* same key, is not answered from the cache and runs the adapters again.
\* It is never answered from the cache; but a limit of zero or less is
\* accepted, and with the flag nitter_failing set every guard of lines 67,
\* 79 and 88 is then false, so that no adapter runs.
C26_AdaptersRunAgain ==
    [][\A p \in Procs :
          CallsAgainAfterEmpty(p) =>
              ~inv'[p].hit /\ inv'[p].attempted # <<>>]_vars

(***************************************************************************)
(* direct_twitter_fetcher.py: DirectTwitterFetcher, the fetcher bot.py     *)
(* uses for the !twitter command.  Its cache is a pair of dictionaries     *)
(* with a TTL of one hour; relevance scores are in tenths.                 *)
(*   probe.cache  self.cache and self.cache_time, by key                   *)
(*   probe.last   the latest call: its arguments, whether it was answered  *)
(*                from the cache (hit), went on to the live fetch (live),  *)
(*                returned backup tweets (backup) or raised, and its       *)
(*                result                                                   *)
(*   probe.ops    the number of calls made                                 *)
(***************************************************************************)
DIRECT_TTL_HOURS == 1

HOURS_PER_TICK == 4

MIN_LIKES == 2

MIN_CONTENT == 20

TITLE_LENGTH == 100

BackupTweet(author, description, age, relevance_score, likes, retweets, replies) ==
    [title |-> [author |-> author, text |-> description, shown |-> TITLE_LENGTH],
     url |-> "https://twitter.com/" \o author \o "/status",
     author |-> author, created_utc |-> 0 - age, description |-> description,
     subreddit |-> "Twitter", relevance_score |-> relevance_score,
     engagement |-> [likes |-> likes, retweets |-> retweets, replies |-> replies],
     hashtags |-> <<"#AI">>]

\* self.backup_tweets, with the words of each description that the queries
\* of the model can match.
BACKUP_TWEETS ==
    << BackupTweet("OpenAI", Str(<<"research", "llm">>, 210, 3, 0),
                   DAY, 48, 12500, 3200, 780),
       BackupTweet("AndrewYNg", Str(<<"ai">>, 245, 2, 0),
                   2 * DAY, 45, 8700, 2100, 430),
       BackupTweet("karpathy", Str(<<"ai">>, 236, 3, 0),
                   3 * DAY, 46, 10200, 2800, 520) >>

\* query.lower(), as one search string, and author.lower()
LowerString(string) ==
    CASE string = "LLM" -> "llm"
      [] string = "OpenAI" -> "openai"
      [] string = "AndrewYNg" -> "andrewyng"
      [] OTHER -> string

\* Lines 181-191: the backup tweets that match the query, or all of them.
FilteredBackup(query) ==
    LET filtered_backup ==
            SelectSeq(BACKUP_TWEETS,
                      LAMBDA tweet :
                        \/ Occurs(LowerString(query), Lower(tweet.description))
                        \/ Occurs(LowerString(query),
                                  Str(<<LowerString(tweet.author)>>, 1, 0, 0)))
    IN  IF query # None /\ filtered_backup # <<>> THEN filtered_backup
        ELSE BACKUP_TWEETS

\* A post as _search_twitter and _fetch_from_accounts build it.
LivePost(author, content, likes, retweets, replies) ==
    [url |-> "https://nitter.net/" \o author \o "/status", content |-> content,
     author |-> author, date |-> "", replies |-> replies,
     retweets |-> retweets, likes |-> likes, relevance_score |-> 40]

L1 == LivePost("OpenAI", Str(<<"llm", "paper">>, 120, 3, 0), 10, 0, 1)

L2 == LivePost("bob", Str(<<"llm">>, 120, 3, 0), 1, 0, 0)

L3 == LivePost("DeepMind", Str(<<"research">>, 20, 1, 0), 0, 4, 0)

SearchOutcomes == {<<>>, <<L1>>, <<L2, L3>>, <<L2, L1>>}

\* Lines 193-199: posts with some engagement and content.
WithEngagement(posts) ==
    SelectSeq(posts, LAMBDA post :
                /\ Get(post, "likes", 0) > MIN_LIKES \/ Get(post, "retweets", 0) > 0
                /\ Get(post, "content", EmptyStr).len > MIN_CONTENT)

\* _format_twitter_posts
FormatTwitterPosts(posts, t) ==
    [i \in 1..Len(posts) |->
        [title |-> [author |-> posts[i].author, text |-> posts[i].content,
                    shown |-> Min(posts[i].content.len, TITLE_LENGTH)],
         url |-> posts[i].url, author |-> posts[i].author, created_utc |-> t,
         description |-> posts[i].content, subreddit |-> "Twitter",
         relevance_score |-> Get(posts[i], "relevance_score", 30),
         engagement |-> [likes |-> Get(posts[i], "likes", 0),
                         retweets |-> Get(posts[i], "retweets", 0),
                         replies |-> Get(posts[i], "replies", 0)],
         hashtags |-> <<>>]]

\* cache_key
DirectKey(query) == IF query # None THEN "twitter_" \o query ELSE "twitter_default"

\* Line 139: the key has an entry younger than the TTL.
DirectLive(c, key, t) ==
    Has(c, key) /\ (t - c[key].time) * HOURS_PER_TICK < DIRECT_TTL_HOURS

\* The call as it has returned.
DirectReturn(c, result, how) == [cache |-> c, result |-> result, how |-> how]

\* The backup tweets returned and stored under the key as well.
ReturnBackup_Cached(c, key, tweets, limit, t) ==
    DirectReturn(Put(c, key, [value |-> Truncate(tweets, limit), time |-> t]),
                 Truncate(tweets, limit), "backup")

\* Lines 189, 191 and 217: the backup tweets, truncated to limit.
ReturnBackup(c, key, tweets, limit, t) ==
    DirectReturn(c, Truncate(tweets, limit), "backup")

\* Lines 143-217: the live fetch.  working says whether an instance answered,
\* by_query, by_term and by_account are what the search with the query,
\* the searches with the AI terms and the account pages delivered, and
\* throws says whether an exception reached the handler of line 212.
LiveFetch(c, query, limit, working, by_query, by_term, by_account, throws, t) ==
    LET key == DirectKey(query)
        first == IF working /\ query # None THEN by_query ELSE <<>>
        second == IF working /\ first = <<>> THEN by_term ELSE first
        posts == IF working /\ second = <<>> THEN by_account ELSE second
        formatted_posts ==
            FormatTwitterPosts(Truncate(WithEngagement(posts), limit), t)
    IN  IF throws THEN ReturnBackup(c, key, BACKUP_TWEETS, limit, t)
        ELSE IF posts = <<>>
        THEN ReturnBackup(c, key, FilteredBackup(query), limit, t)
        ELSE DirectReturn(IF formatted_posts # <<>>
                          THEN Put(c, key, [value |-> formatted_posts, time |-> t])
                          ELSE c,
                          formatted_posts, "live")

InitDirect ==
    /\ InitFetcher /\ world = FreeWorld
    /\ probe = [pc |-> "direct", cache |-> EmptyDict, ops |-> 0,
                last |-> [query |-> None, limit |-> 0, how |-> "none",
                          result |-> <<>>]]

\* DirectTwitterFetcher.fetch_trending_posts(query, limit)
DirectFetch ==
    /\ probe.pc = "direct"
    /\ probe.ops < MaxOps
    /\ \E query \in QueryArgs \cup {"LLM"}, limit \in Limits,
          working \in BOOLEAN, throws \in BOOLEAN,
          by_query \in SearchOutcomes, by_term \in {<<>>, <<L1>>},
          by_account \in {<<>>, <<L3>>} :
         \E returned \in
               {IF DirectLive(probe.cache, DirectKey(query), now)
                THEN DirectReturn(probe.cache,
                                  probe.cache[DirectKey(query)].value, "hit")
                ELSE LiveFetch(probe.cache, query, limit, working, by_query,
                               by_term, by_account, throws, now)} :
            probe' = [probe EXCEPT !.cache = returned.cache, !.ops = @ + 1,
                                   !.last = [query |-> query, limit |-> limit,
                                             how |-> returned.how,
                                             result |-> returned.result]]
    /\ UNCHANGED <<now, cache, nitter_failing, inv, world, prev, calls>>

NextDirect == DirectFetch \/ Tick

SpecDirect == InitDirect /\ [][NextDirect]_vars

\* C28: a call of DirectTwitterFetcher.fetch_trending_posts that obtains no
\* live posts returns backup tweets, in their order and at most limit of
\* them for a positive limit, raises nothing and leaves the cache as it
\* was; and the call that follows one that returned backup tweets, with the
\* same key, is not answered from the cache: it attempts the live fetch.
C28_BackupNotCached ==
    [][probe.pc = "direct" /\ probe'.ops = probe.ops + 1 =>
          /\ probe'.last.how = "backup" =>
                /\ probe'.cache = probe.cache
                /\ probe'.last.result
                     \in {Truncate(BACKUP_TWEETS, probe'.last.limit),
                          Truncate(FilteredBackup(probe'.last.query),
                                   probe'.last.limit)}
                /\ probe'.last.limit >= 1 =>
                      Len(probe'.last.result) <= probe'.last.limit
          /\ probe.last.how = "backup"
                  /\ DirectKey(probe'.last.query) = DirectKey(probe.last.query)
                => probe'.last.how # "hit"]_vars

\* C28, witness: two calls with the same query within the TTL, both answered
\* with the backup tweet that matches the query, the cache still empty.
C28_Witness ==
    /\ probe.pc = "direct" /\ probe.ops = 2 /\ now = 0
    /\ probe.last.how = "backup" /\ probe.last.query = "LLM"
    /\ probe.last.result = <<BACKUP_TWEETS[1]>>
    /\ probe.cache = EmptyDict

(***************************************************************************)
(* reddit_fetcher.py: RedditFetcher, over the CacheManager bot.py gives it *)
(* (a TTL of eight hours, CACHE_TTL ticks).  Relevance scores are in       *)
(* halves, as in the filter.                                               *)
(*   cache       the CacheManager of the fetcher                           *)
(*   probe.last  the latest call: whether it was answered from the cache   *)
(*               (hit), the list it computed from the feed (posts), and    *)
(*               the feed's entries it read                                *)
(*   probe.ops   the number of calls made                                  *)
(***************************************************************************)
MIN_RELEVANCE_SCORE == 4

MIN_FIELD_LENGTH == 10

\* An entry of a subreddit's RSS feed, with what the Reddit API answers for
\* it: api says whether the answer has status 200, selftext is its text.
Entry(link, title, summary, api, selftext) ==
    [link |-> link, title |-> title, author |-> "u/alice", summary |-> summary,
     api |-> api, selftext |-> selftext]

E1 == Entry("r/1", Str(<<"llm">>, 40, 2, 0), Str(<<"dataset">>, 50, 1, 0),
            FALSE, EmptyStr)

E2 == Entry("r/2", Str(<<"hello">>, 40, 2, 0), Str(<<"dataset">>, 50, 1, 0),
            FALSE, EmptyStr)

E3 == Entry("r/3", Str(<<"algorithm">>, 40, 2, 0), Str(<<"dataset">>, 50, 1, 0),
            TRUE, EmptyStr)

E4 == Entry("r/4", Str(<<"llm">>, 40, 2, 0), Str(<<"hello">>, 50, 1, 0), TRUE,
            Str(<<"artificial intelligence", "machine learning">>, 300, 4, 0))

E5 == Entry("r/5", Str(<<"llm">>, 40, 2, 0), Str(<<"dataset">>, 10, 1, 0),
            FALSE, EmptyStr)

\* feed.entries
Feeds ==
    {<<>>, <<E1>>, <<E2>>, <<E5>>, <<E3, E1>>, <<E1, E3>>, <<E4, E1, E3>>,
     <<E3, E2, E1, E4>>, <<E5, E3, E4, E2, E1>>}

\* strip_html_tags, on the texts of the model, which hold no tag, entity or
\* line break.
StripHtmlTags(text) == IF Truthy(text) THEN text ELSE EmptyStr

\* extract_post_content(entry): content and relevance_score.
ExtractPostContent(entry) ==
    IF entry.api /\ Truthy(entry.selftext)
    THEN [content |-> StripHtmlTags(entry.selftext),
          relevance_score |-> calculate_relevance_score(entry.title)
                              + calculate_relevance_score(entry.selftext)]
    ELSE IF entry.summary.len > MIN_FIELD_LENGTH
    THEN [content |-> StripHtmlTags(entry.summary),
          relevance_score |-> calculate_relevance_score(entry.title)
                              + calculate_relevance_score(entry.summary)]
    ELSE [content |-> Str(<<"content unavailable">>, 57, 2, 0),
          relevance_score |-> 0]

\* Lines 187-215: the loop over feed.entries[:limit * 2], over entries[1..n];
\* full says that the loop has reached its break.
RECURSIVE RedditLoop(_, _, _, _, _)
RedditLoop(entries, n, limit, subreddit_name, t) ==
    IF n = 0 THEN [posts |-> <<>>, full |-> FALSE]
    ELSE Bind(RedditLoop(entries, n - 1, limit, subreddit_name, t),
              LAMBDA sofar :
                Bind(ExtractPostContent(entries[n]),
                     LAMBDA extracted :
                       IF sofar.full
                          \/ extracted.relevance_score < MIN_RELEVANCE_SCORE
                       THEN sofar
                       ELSE [posts |->
                               Append(sofar.posts,
                                      [title |-> StripHtmlTags(entries[n].title),
                                       url |-> entries[n].link,
                                       author |-> entries[n].author,
                                       created_utc |-> t,
                                       description |-> extracted.content,
                                       subreddit |-> subreddit_name,
                                       relevance_score |->
                                           extracted.relevance_score]),
                             full |-> Len(sofar.posts) + 1 >= limit]))

\* The list left in the order of the feed.
SortByRelevance_Unsorted(posts) == posts

\* Line 219: posts.sort(key=relevance_score, reverse=True), a stable sort.
RECURSIVE SortByRelevance(_)
SortByRelevance(posts) ==
    IF posts = <<>> THEN <<>>
    ELSE Bind(SortByRelevance(SubSeq(posts, 1, Len(posts) - 1)),
              LAMBDA sorted :
                LET post == posts[Len(posts)]
                    ahead == Cardinality({i \in 1..Len(sorted) :
                                 sorted[i].relevance_score >= post.relevance_score})
                IN  SubSeq(sorted, 1, ahead) \o <<post>>
                    \o SubSeq(sorted, ahead + 1, Len(sorted)))

\* Lines 182-225: the posts computed from the response.
RedditPosts(status, feed, limit, subreddit_name, t) ==
    IF status # 200 THEN <<>>
    ELSE Bind(Truncate(feed, limit * 2),
              LAMBDA entries :
                SortByRelevance(
                    RedditLoop(entries, Len(entries), limit, subreddit_name, t).posts))

DEFAULT_SUBREDDIT == "MachineLearning"

InitReddit ==
    /\ InitFetcher /\ world = FreeWorld
    /\ probe = [pc |-> "reddit", ops |-> 0,
                last |-> [hit |-> FALSE, posts |-> <<>>, read |-> <<>>,
                          result |-> <<>>]]

\* RedditFetcher.fetch_trending_posts(subreddit, limit); status 0 stands for
\* a request that raised.
RedditFetch ==
    /\ probe.pc = "reddit"
    /\ probe.ops < MaxOps
    /\ \E subreddit \in {None, "LocalLLaMA"}, limit \in Limits,
          status \in {0, 200, 429}, feed \in Feeds :
         \E cache_key \in {"reddit_" \o (IF subreddit # None THEN subreddit
                                         ELSE DEFAULT_SUBREDDIT)} :
           \E cached_posts \in {CacheGet(cache, cache_key, now)} :
             IF cached_posts.found /\ cached_posts.value # <<>>
             THEN /\ cache' = CacheAfterGet(cache, cache_key, now)
                  /\ probe' = [probe EXCEPT !.ops = @ + 1,
                                  !.last = [hit |-> TRUE, posts |-> <<>>,
                                            read |-> <<>>,
                                            result |-> cached_posts.value]]
             ELSE \E posts \in {RedditPosts(status, feed, limit,
                                            SubSeq(cache_key, 8, Len(cache_key)),
                                            now)} :
                  /\ cache' = IF posts # <<>>
                              THEN CacheSet(CacheAfterGet(cache, cache_key, now),
                                            cache_key, posts, now)
                              ELSE CacheAfterGet(cache, cache_key, now)
                  /\ probe' = [probe EXCEPT !.ops = @ + 1,
                                  !.last = [hit |-> FALSE, posts |-> posts,
                                            read |-> IF status = 200 THEN feed
                                                     ELSE <<>>,
                                            result |-> posts]]
    /\ UNCHANGED <<now, nitter_failing, inv, world, prev, calls>>

NextReddit == RedditFetch \/ Tick

SpecReddit == InitReddit /\ [][NextReddit]_vars

\* Every post of the list has a relevance_score of at least 2.0, and the
\* scores do not increase along the list.
RelevantAndOrdered(posts) ==
    /\ \A i \in 1..Len(posts) : posts[i].relevance_score >= MIN_RELEVANCE_SCORE
    /\ \A i, j \in 1..Len(posts) :
          i < j => posts[i].relevance_score >= posts[j].relevance_score

\* C29: every list RedditFetcher.fetch_trending_posts computes from a feed,
\* every list it returns and every list it caches holds only posts with a
\* relevance_score of at least 2.0, in non-increasing order of
\* relevance_score (each score being that of extract_post_content for the
\* entry), and no empty list is written to the cache.
C29_RelevantSortedCached ==
    probe.pc = "reddit" =>
        /\ RelevantAndOrdered(probe.last.posts)
        /\ RelevantAndOrdered(probe.last.result)
        /\ \A i \in 1..Len(probe.last.posts) :
              \E j \in 1..Len(probe.last.read) :
                  /\ probe.last.read[j].link = probe.last.posts[i].url
                  /\ ExtractPostContent(probe.last.read[j]).relevance_score
                       = probe.last.posts[i].relevance_score
        /\ \A k \in 1..Len(cache) :
              cache[k].value # <<>> /\ RelevantAndOrdered(cache[k].value)
        /\ ~probe.last.hit /\ probe.last.posts # <<>> =>
              cache # <<>> /\ cache[Len(cache)].value = probe.last.posts

\* C29, witness: from a feed whose first entry scores 2.0, whose second is
\* below 2.0 and whose fourth scores highest, the call computed and cached
\* the three relevant posts with the highest first.
C29_Witness ==
    /\ probe.pc = "reddit" /\ ~probe.last.hit
    /\ probe.last.read = <<E3, E2, E1, E4>>
    /\ Len(probe.last.posts) = 3
    /\ probe.last.posts[1].url = E4.link /\ probe.last.posts[3].url = E3.link
    /\ cache # <<>> /\ cache[Len(cache)].value = probe.last.posts

(***************************************************************************)
(* The network fetches of one fetch_trending_posts invocation, one step    *)
(* per fetch that completes or times out (twitter_fetcher.py with          *)
(* twitter_nitter.py and twitter_rss.py).  What a fetch delivers is        *)
(* reduced to the tests the code makes on it, drawn as a record of         *)
(* decisions.                                                              *)
(*   probe.at                where the invocation is suspended: the stage  *)
(*                           (the kind of fetch), the index in the list    *)
(*                           being walked, and the adapter call (ctx)      *)
(*   probe.working_instance  NitterMethod.working_instance (0 for None)    *)
(*   probe.failing           TwitterFetcher.nitter_failing                 *)
(*   probe.probes            how often each instance was probed in the     *)
(*                           _get_working_nitter_instance in progress, and *)
(*   probe.remembered        how often the remembered one was              *)
(*   probe.searches          instance searches of the invocation           *)
(*   probe.count             fetches per search term, hashtag, account     *)
(*                           and feed in the current invocation            *)
(***************************************************************************)
NumInstances == 2

NUM_TERMS == 3

NUM_HASHTAGS == 3

NUM_ACCOUNTS == 4

NUM_FEEDS == 10

\* The instance searches of one invocation: by fetch_posts, by the
\* fetch_from_accounts it calls, and by the account fetch.
MAX_SEARCHES == 3

Kinds == {"query", "term", "hashtag", "account", "feed"}

\* The tests a step makes on what was fetched; the ones it does not make
\* are left false.
Decisions(tests) ==
    {d \in [ok : BOOLEAN, short : BOOLEAN, full : BOOLEAN, empty : BOOLEAN,
             more : BOOLEAN, specific : BOOLEAN, skip : BOOLEAN,
             raises : BOOLEAN] :
        \A test \in DOMAIN d : test \notin tests => ~d[test]}

Goto(b, stage, i, ctx) == [b EXCEPT !.at = [stage |-> stage, i |-> i, ctx |-> ctx]]

\* fetch_trending_posts returns its list.
ReturnList(b) == Goto(b, "returned", 0, "none")

\* _get_working_nitter_instance returns.
SearchOver(b) ==
    [b EXCEPT !.probes = [i \in 1..NumInstances |-> 0], !.remembered = 0]

\* One more network fetch, of the k-th item of a kind.
Counted(b, kind, k) ==
    [b EXCEPT !.count[kind][k] = @ + 1]

\* twitter_fetcher.py lines 88-94: the RSS feeds, if too few posts.
Method3Live(b, d) ==
    IF d.more THEN Goto(b, "feed", 1, "rss") ELSE ReturnList(b)

\* _get_working_nitter_instance begins: the remembered instance first.
InstanceSearch(b, ctx) ==
    LET c == [b EXCEPT !.searches = @ + 1]
    IN  IF c.working_instance # 0 THEN Goto(c, "remembered", 0, ctx)
        ELSE Goto(c, "instance", 1, ctx)

\* twitter_fetcher.py lines 79-85: the account fetch, if too few posts.
Method2Live(b, d) ==
    IF d.more THEN InstanceSearch(b, "accounts") ELSE ReturnList(b)

\* fetch_posts returns (lines 71-76): the flag is set if it returned nothing.
EndNitter(b, d) == Method2Live([b EXCEPT !.failing = @ \/ d.empty], d)

\* fetch_from_accounts returns, to fetch_posts or to fetch_trending_posts.
EndAccounts(b, ctx, d) ==
    IF ctx = "nitter_accounts" THEN EndNitter(b, d) ELSE Method3Live(b, d)

\* twitter_nitter.py lines 184-188, after the hashtags.
AfterHashtags(b, d) ==
    IF d.short THEN InstanceSearch(b, "nitter_accounts") ELSE EndNitter(b, d)

\* Lines 178-182, after the search terms.
AfterTerms(b, d) ==
    IF d.short THEN Goto(b, "hashtag", 1, "nitter") ELSE EndNitter(b, d)

\* Lines 157-164: the k-th search term, skipped if it is the query.
EnterTerm(b, k, d) ==
    LET first == IF d.skip THEN k + 1 ELSE k
    IN  IF first > NUM_TERMS THEN AfterTerms(b, d)
        ELSE Goto(b, "term_top", first, "nitter")

\* An instance answered: fetch_posts (lines 146-153) or fetch_from_accounts
\* (line 351) goes on.
Found(b, ctx, d) ==
    IF ctx # "nitter" THEN Goto(SearchOver(b), "account", 1, ctx)
    ELSE IF d.specific THEN Goto(SearchOver(b), "query", 1, "nitter")
    ELSE IF d.short THEN EnterTerm(SearchOver(b), 1, d)
    ELSE EndNitter(SearchOver(b), d)

\* The search that starts over when no instance answered.
NoInstance_Retries(b, ctx, d) == Goto(b, "instance", 1, ctx)

\* Lines 125-126, 143-144 and 347-348: no instance answered, the adapter
\* returns the empty list.
NoInstance(b, ctx, d) ==
    IF ctx = "nitter" THEN EndNitter(SearchOver(b), [d EXCEPT !.empty = TRUE])
    ELSE EndAccounts(SearchOver(b), ctx, d)

\* A fetcher that has served any number of invocations: an instance may be
\* remembered and the flag may be set.
InitLive ==
    /\ InitFetcher /\ world = FreeWorld
    /\ probe \in [pc : {"live"}, at : {[stage |-> "idle", i |-> 0, ctx |-> "none"]},
                  working_instance : 0..NumInstances, failing : BOOLEAN,
                  probes : {[i \in 1..NumInstances |-> 0]},
                  remembered : {0}, searches : {0},
                  count : {[kind \in Kinds |-> [k \in 1..NUM_FEEDS |-> 0]]}]

\* fetch_trending_posts is invoked: lines 53-69.
StartLive ==
    /\ probe.pc = "live"
    /\ probe.at.stage = "idle"
    /\ \E d \in Decisions({"ok", "more"}) :
         probe' = IF d.ok THEN ReturnList(probe)
                  ELSE IF ~probe.failing THEN InstanceSearch(probe, "nitter")
                  ELSE Method2Live(probe, d)
    /\ UNCHANGED <<now, cache, nitter_failing, inv, world, prev, calls>>

\* The probe of an instance completes (lines 78-123).
ProbeReturn ==
    /\ probe.pc = "live"
    /\ probe.at.stage \in {"remembered", "instance"}
    /\ \E d \in Decisions({"ok", "specific", "short", "skip", "empty", "more"}) :
         LET i == probe.at.i
             ctx == probe.at.ctx
         IN  probe' =
               IF probe.at.stage = "remembered"
               THEN LET b == [probe EXCEPT !.remembered = @ + 1]
                    IN  IF d.ok THEN Found(b, ctx, d)
                        ELSE Goto([b EXCEPT !.working_instance = 0],
                                  "instance", 1, ctx)
               ELSE LET b == [probe EXCEPT !.probes[i] = @ + 1]
                    IN  IF d.ok
                        THEN Found([b EXCEPT !.working_instance = i], ctx, d)
                        ELSE IF i < NumInstances
                        THEN Goto(b, "instance", i + 1, ctx)
                        ELSE NoInstance(b, ctx, d)
    /\ UNCHANGED <<now, cache, nitter_failing, inv, world, prev, calls>>

\* A search of _fetch_by_search completes (lines 148-176); an exception in
\* fetch_posts reaches the handler of fetch_trending_posts.
SearchReturn ==
    /\ probe.pc = "live"
    /\ probe.at.stage \in {"query", "term_top", "term_latest"}
    /\ \E d \in Decisions({"raises", "short", "full", "skip", "empty", "more"}) :
         LET k == probe.at.i
             b == Counted(probe, IF probe.at.stage = "query" THEN "query"
                                 ELSE "term", k)
         IN  probe' =
               IF d.raises THEN ReturnList(b)
               ELSE IF probe.at.stage = "query"
               THEN IF d.short THEN EnterTerm(b, 1, d) ELSE EndNitter(b, d)
               ELSE IF probe.at.stage = "term_top" /\ d.short
               THEN Goto(b, "term_latest", k, "nitter")
               ELSE IF d.full /\ ~d.short THEN AfterTerms(b, d)
               ELSE EnterTerm(b, k + 1, d)
    /\ UNCHANGED <<now, cache, nitter_failing, inv, world, prev, calls>>

\* The page of a hashtag completes (lines 301-331).
HashtagReturn ==
    /\ probe.pc = "live"
    /\ probe.at.stage = "hashtag"
    /\ \E d \in Decisions({"raises", "full", "short", "empty", "more"}) :
         LET k == probe.at.i
             b == Counted(probe, "hashtag", k)
         IN  probe' = IF d.raises \/ d.full \/ k = NUM_HASHTAGS
                      THEN AfterHashtags(b, d)
                      ELSE Goto(b, "hashtag", k + 1, "nitter")
    /\ UNCHANGED <<now, cache, nitter_failing, inv, world, prev, calls>>

\* The page of a research account completes (lines 351-387).
AccountReturn ==
    /\ probe.pc = "live"
    /\ probe.at.stage = "account"
    /\ \E d \in Decisions({"full", "empty", "more"}) :
         LET k == probe.at.i
             b == Counted(probe, "account", k)
         IN  probe' = IF d.full \/ k = NUM_ACCOUNTS
                      THEN EndAccounts(b, probe.at.ctx, d)
                      ELSE Goto(b, "account", k + 1, probe.at.ctx)
    /\ UNCHANGED <<now, cache, nitter_failing, inv, world, prev, calls>>

\* The fetch of a feed completes (twitter_rss.py lines 63-86); a feed held
\* in feed_cache is counted as a fetch too.
FeedReturn ==
    /\ probe.pc = "live"
    /\ probe.at.stage = "feed"
    /\ LET k == probe.at.i
           b == Counted(probe, "feed", k)
       IN  probe' = IF k = NUM_FEEDS THEN ReturnList(b)
                    ELSE Goto(b, "feed", k + 1, "rss")
    /\ UNCHANGED <<now, cache, nitter_failing, inv, world, prev, calls>>

NextLive ==
    \/ StartLive
    \/ ProbeReturn
    \/ SearchReturn
    \/ HashtagReturn
    \/ AccountReturn
    \/ FeedReturn

\* Every network fetch eventually completes or times out.
SpecLive == InitLive /\ [][NextLive]_vars /\ WF_vars(NextLive)

\* C30: with every network fetch completing or timing out, every invocation
\* of fetch_trending_posts returns, and until then it has made a bounded
\* number of fetches: there are at most three instance searches, in each
\* of which each instance is probed at most once and the remembered
\* instance once, the query is searched once,
\* each search term twice, each hashtag once, each research account twice
\* and each feed once.
C30_ReturnsAfterBoundedFetches ==
    /\ [](probe.pc = "live" =>
            /\ probe.searches <= MAX_SEARCHES
            /\ probe.remembered <= 1
            /\ \A i \in 1..NumInstances : probe.probes[i] <= 1
            /\ \A k \in 1..NUM_FEEDS :
                  /\ probe.count["query"][k] <= 1
                  /\ probe.count["term"][k] <= 2
                  /\ probe.count["hashtag"][k] <= 1
                  /\ probe.count["account"][k] <= 2
                  /\ probe.count["feed"][k] <= 1)
    /\ (probe.pc = "live" /\ probe.at.stage \notin {"idle", "returned"})
          ~> (probe.at.stage = "returned")

\* C30, witness: an invocation returned after the search with the query,
\* two searches of every term, every hashtag, every account twice and
\* every feed.
C30_Witness ==
    /\ probe.pc = "live" /\ probe.at.stage = "returned"
    /\ probe.searches = MAX_SEARCHES
    /\ probe.count["query"][1] = 1
    /\ \A k \in 1..NUM_TERMS : probe.count["term"][k] = 2
    /\ \A k \in 1..NUM_HASHTAGS : probe.count["hashtag"][k] = 1
    /\ \A k \in 1..NUM_ACCOUNTS : probe.count["account"][k] = 2
    /\ \A k \in 1..NUM_FEEDS : probe.count["feed"][k] = 1

====
